---- MODULE Spec2Model ----
(***************************************************************************)
(* Qiubit extension: the dApp request broker and the session-key handoff.  *)
(*                                                                         *)
(* Contexts modelled: the in-page provider of each origin (inpage.js), the *)
(* content-script relay, the background service worker (background.js),    *)
(* the extension UI (App.jsx, DappApproval.jsx) and the two chrome.storage *)
(* areas.  Time is counted in minutes.                                     *)
(***************************************************************************)
EXTENDS Integers, Sequences, FiniteSets, TLC

\* ---------------------------------------------------------------- bounds
MaxRequests == 2
MaxSessionKeys == 2
MaxClicks == 2
MaxTime == 7
MaxRestarts == 1
MaxStray == 2
MaxMessages == 2
MaxListeners == 3

\* ------------------------------------------------------ program constants
\* setTimeout(..., 300000) in sendRequest, in minutes
RequestTimeout == 5
\* SESSION_DURATION = 5 * 60 * 1000 in App, in minutes
SESSION_DURATION == 5
\* expiry = 5 * 60 * 1000 of DappService.clearExpiredRequests, in minutes
ApprovalExpiry == 5

Origins == {"https://d.app", "https://e.app"}

\* The wallets the at-rest store yields on unlock (loadWallets).
Wallets ==
    { [address |-> "octA", privateKeyB64 |-> "skA", publicKeyB64 |-> "pkA"],
      [address |-> "octB", privateKeyB64 |-> "skB", publicKeyB64 |-> "pkB"] }

Addresses == { w.address : w \in Wallets }

\* keyringService.getPrivateKey / getPublicKey of an unlocked keyring
KeyringEntry(a) == CHOOSE w \in Wallets : w.address = a

Methods == {"connect", "disconnect", "signMessage", "signTransaction", "sendTransaction"}

ApprovalTypes == {"connect", "signMessage", "signTransaction", "sendTransaction"}

VARIABLES
    \* --- extension UI: the App instance of the open extension window
    appOpen,             \* an extension window (an App instance) is open
    isUnlocked,          \* App state isUnlocked
    sessionKey,          \* App state sessionKey (0 = null)
    dappApprovalId,      \* App state dappApprovalId (0 = null: not an approval window)
    request,             \* DappApprovalScreen: "loading" | "found" | "error"
    clicks,              \* RESOLVE_APPROVAL messages this window has sent
    createdWindows,      \* approval windows chrome.windows.create was asked for, not loaded yet
    \* --- localStorage of the extension origin
    savedIndex,          \* getActiveWalletIndex(): address of the active wallet
    sessionExpiry,       \* octra_session_expiry (-1 = no octra_session_data)
    \* --- chrome.storage
    storageSession,      \* chrome.storage.session: key -> value
    storageLocal,        \* chrome.storage.local: key -> value
    \* --- background service worker
    activeSessionCache,  \* {} = null, else {session}
    memorySessionKey,    \* 0 = null
    dappConnections,     \* Map origin -> connection
    dappApprovals,       \* Map approvalId -> approval
    \* --- pages: the in-page provider of each origin
    requestId,           \* origin -> last correlation id
    pendingRequests,     \* origin -> set of ids in the correlation table
    provider,            \* origin -> provider state
    \* --- requests in flight (provider call, relay, broker handler); `late`
    \* records that the decision on the request's approval arrived after the
    \* provider call had left the correlation table
    reqs,                \* sequence of request records
    \* --- environment
    now,                 \* Date.now(), minutes
    keysGenerated,       \* generateSessionKey() calls so far
    \* --- history
    received,            \* approvalId -> decisions RESOLVE_APPROVAL carried for it
    invoked,             \* approvalId -> times its resolve/reject ran
    approvalLog,         \* approvalId -> the approval as created
    signatures,          \* signatures produced
    broadcasts,          \* transactions posted to /send-tx
    registered,          \* connections registered by handleConnect
    lockCompleted,       \* handleLock has run and handleUnlock has not run since
    \* --- restarts of the service worker
    connectionsLoad,     \* {} = no load running, else {data chrome.storage.local.get returns}
    restarts,            \* restarts of the service worker so far
    lastOp,              \* origin -> last connection operation completed since the
                         \* last restart or reset: "none" | "added" | "removed"
    \* --- OCTRA_RESPONSE messages other scripts of the page post
    strayResponses,      \* [count: messages posted, ignored: why those that found
                         \* no entry found none: "unknown" | "answered" | "timed out"]
    \* --- window messages the relay's listener received from other scripts
    relayed,             \* [count: messages received, last: {} or {[page, event, sent]},
                         \* sent = {} or {the DAPP_REQUEST the relay sent for it}]
    \* --- a helper function applied to given arguments
    calc,                \* [fn: "none" | the function, its arguments, and its
                         \* results once it has run]
    \* --- the RESET_EVERYTHING handler, step by step
    resetPc,             \* "idle" | "local cleared" | "session cleared" | "replied"
    \* --- the provider's event emitter, for one event
    eventListeners,      \* eventListeners.get(event): sequence of [cb, once]
    emitted              \* {} or {the last emit: the listeners before it, the
                         \* callbacks it invoked in order, the listeners after it}

uiVars == <<appOpen, isUnlocked, sessionKey, dappApprovalId, request, clicks, createdWindows,
           savedIndex, sessionExpiry>>
storageVars == <<storageSession, storageLocal>>
bgVars == <<activeSessionCache, memorySessionKey, dappConnections, dappApprovals>>
pageVars == <<requestId, pendingRequests, provider, reqs>>
histVars == <<received, invoked, approvalLog, signatures, broadcasts, registered, lockCompleted>>
restartVars == <<connectionsLoad, restarts, lastOp>>
vars == <<uiVars, storageVars, bgVars, pageVars, now, keysGenerated, histVars, restartVars,
          strayResponses, relayed, calc, resetPc, eventListeners, emitted>>

\* ------------------------------------------------------------- helpers
The(S) == CHOOSE x \in S : TRUE

EmptyMap == [k \in {} |-> k]

MapSet(m, k, v) == (k :> v) @@ m

MapDelete(m, k) == [x \in DOMAIN m \ {k} |-> m[x]]

Has(rec, f) == f \in DOMAIN rec

\* ------------------------------------------------ utils/crypto (session)
\* encryptSession(plaintext, key): a ciphertext only `key` opens
encryptSession(plaintext, key) == [sealed |-> plaintext, underKey |-> key]

\* decryptSession(ciphertext, key): {plaintext}, or {} when the key is wrong
decryptSession(ciphertext, key) ==
    IF ciphertext.underKey = key THEN {ciphertext.sealed} ELSE {}

\* ------------------------------------------------------------ App.jsx
\* sessionData of handleUnlock
UnlockSessionData(addr, key) ==
    [ address |-> addr,
      publicKey |-> KeyringEntry(addr).publicKeyB64,
      encryptedPrivateKey |-> encryptSession(KeyringEntry(addr).privateKeyB64, key),
      network |-> "mainnet",
      timestamp |-> now ]

\* sessionData of syncSessionToBackground
SyncSessionData(addr) ==
    [ address |-> addr,
      publicKey |-> KeyringEntry(addr).publicKeyB64,
      privateKey |-> KeyringEntry(addr).privateKeyB64,
      network |-> "mainnet",
      timestamp |-> now ]

\* --------------------------------------------------- background.js
\* handleSyncSession(data): the new <<memorySessionKey, activeSessionCache>>.
\* data is the message: sessionKeyField (0 = absent/null), sessionField
\* ({} = absent/null), read against the session storage area `stored`.
SyncSessionKeyResult(sessionKeyField, sessionField) ==
    IF sessionKeyField # 0 THEN sessionKeyField ELSE memorySessionKey

SyncSessionCacheResult(sessionKeyField, sessionField, stored) ==
    IF sessionKeyField # 0
    THEN IF Has(stored, "dapp_wallet_session")
         THEN {stored["dapp_wallet_session"]}
         ELSE activeSessionCache
    ELSE IF sessionField # {} THEN sessionField
    ELSE activeSessionCache

\* getWalletFromStorage, step 1: the session it works on (the cache, else
\* the session storage area), which it also leaves in activeSessionCache
SessionFor(cache, stored) ==
    IF cache # {} THEN cache
    ELSE IF Has(stored, "dapp_wallet_session")
         THEN {stored["dapp_wallet_session"]}
         ELSE {}

\* A getWalletFromStorage that tells a failed decryption from a missing key
C14_WalletFromReportingFailure(S, key) ==
    IF S = {} THEN {}
    ELSE LET session == The(S)
         IN IF Has(session, "encryptedPrivateKey") /\ key # 0
            THEN LET plain == decryptSession(session.encryptedPrivateKey, key)
                 IN IF plain # {}
                    THEN { [privateKey |-> The(plain), privateKeyB64 |-> The(plain)]
                              @@ session }
                    ELSE { [decryptionFailed |-> TRUE] @@ session }
            ELSE IF Has(session, "privateKey") \/ Has(session, "privateKeyB64")
                 THEN {session}
                 ELSE {}

\* getWalletFromStorage, steps 2 and 3, on that session with memorySessionKey
\* = key: {wallet}, or {} for null (locked)
WalletFrom(S, key) ==
    IF S = {} THEN {}
    ELSE LET session == The(S)
             plain == IF Has(session, "encryptedPrivateKey") /\ key # 0
                      THEN decryptSession(session.encryptedPrivateKey, key)
                      ELSE {}
         IN IF plain # {}
            THEN { [privateKey |-> The(plain), privateKeyB64 |-> The(plain)] @@ session }
            ELSE IF Has(session, "privateKey") \/ Has(session, "privateKeyB64")
                 THEN {session}
                 ELSE {}

getWalletFromStorage ==
    WalletFrom(SessionFor(activeSessionCache, storageSession), memorySessionKey)

\* wallet.privateKey || wallet.privateKeyB64 is truthy
HasKey(W) == W # {} /\ (Has(The(W), "privateKey") \/ Has(The(W), "privateKeyB64"))

KeyOf(w) == IF Has(w, "privateKey") THEN w.privateKey ELSE w.privateKeyB64

\* handleSyncSession(data) as run by the SYNC_SESSION listener
handleSyncSession(sessionKeyField, sessionField, stored) ==
    /\ memorySessionKey' = SyncSessionKeyResult(sessionKeyField, sessionField)
    /\ activeSessionCache' = SyncSessionCacheResult(sessionKeyField, sessionField, stored)

\* ------------------------------------------------------------- Init
InitProgram ==
    /\ appOpen = FALSE
    /\ isUnlocked = FALSE
    /\ sessionKey = 0
    /\ dappApprovalId = 0
    /\ request = "loading"
    /\ clicks = 0
    /\ createdWindows = {}
    /\ savedIndex = "octA"
    /\ sessionExpiry = -1
    /\ storageSession = EmptyMap
    /\ storageLocal = EmptyMap
    /\ activeSessionCache = {}
    /\ memorySessionKey = 0
    /\ dappConnections = EmptyMap
    /\ dappApprovals = EmptyMap
    /\ requestId = [o \in Origins |-> 0]
    /\ pendingRequests = [o \in Origins |-> {}]
    /\ provider = [o \in Origins |->
                      [isConnected |-> FALSE, selectedAddress |-> "null",
                       networkId |-> "null", chainId |-> 0]]
    /\ reqs = <<>>
    /\ now = 1
    /\ keysGenerated = 0
    /\ received = EmptyMap
    /\ invoked = EmptyMap
    /\ approvalLog = EmptyMap
    /\ signatures = {}
    /\ broadcasts = {}
    /\ registered = {}
    /\ lockCompleted = FALSE
    /\ connectionsLoad = {}
    /\ restarts = 0
    /\ lastOp = [o \in Origins |-> "none"]
    /\ strayResponses = [count |-> 0, ignored |-> {}]
    /\ relayed = [count |-> 0, last |-> {}]
    /\ resetPc = "idle"
    /\ eventListeners = <<>>
    /\ emitted = {}

Init == InitProgram /\ calc = [fn |-> "none"]

\* ------------------------------------------------- extension UI (App)
\* The wallet is locked for the user: no window is unlocked and localStorage
\* holds no session that has not expired
UILocked == ~isUnlocked /\ (sessionExpiry < 0 \/ now > sessionExpiry)

\* An init() that restores a session whatever localStorage holds
C24_RestoresWithoutSession == TRUE

\* restoreActiveSession() of init(): the password comes back while the
\* localStorage session has not expired
RestoreSucceeds == sessionExpiry >= 0 /\ now <= sessionExpiry

\* fetchRequest() of DappApprovalScreen, run when the screen mounts:
\* GET_PENDING_APPROVALS, then requests.find(r => r.id === approvalId)
fetchRequest(approvalId) ==
    IF Has(dappApprovals, approvalId) THEN "found" ELSE "error"

\* A new App instance mounts (useState initial values, then init()); an
\* approval window that restored its session shows DappApprovalScreen
AppMount(approvalId) ==
    /\ appOpen' = TRUE
    /\ dappApprovalId' = approvalId
    /\ sessionKey' = 0
    /\ request' = IF approvalId # 0 /\ RestoreSucceeds THEN fetchRequest(approvalId)
                  ELSE "loading"
    /\ clicks' = 0
    /\ isUnlocked' = RestoreSucceeds
    /\ sessionExpiry' = IF RestoreSucceeds THEN now + SESSION_DURATION ELSE -1
    /\ UNCHANGED savedIndex

\* The user opens the extension popup (index.html without an approval id)
OpenPopup ==
    /\ ~appOpen
    /\ AppMount(0)
    /\ UNCHANGED <<createdWindows, storageVars, bgVars, pageVars, now, keysGenerated, histVars>>
    /\ UNCHANGED <<restartVars, strayResponses, relayed, calc, resetPc, eventListeners, emitted>>

\* The window requestApproval asked for loads index.html#/dapp/approve?id=...
OpenApprovalWindow(id) ==
    /\ ~appOpen
    /\ id \in createdWindows
    /\ createdWindows' = createdWindows \ {id}
    /\ AppMount(id)
    /\ UNCHANGED <<storageVars, bgVars, pageVars, now, keysGenerated, histVars>>
    /\ UNCHANGED <<restartVars, strayResponses, relayed, calc, resetPc, eventListeners, emitted>>

\* The window is closed (by the user, or by window.close() after a decision)
CloseWindow ==
    /\ appOpen
    /\ appOpen' = FALSE
    /\ isUnlocked' = FALSE
    /\ sessionKey' = 0
    /\ dappApprovalId' = 0
    /\ request' = "loading"
    /\ clicks' = 0
    /\ UNCHANGED <<createdWindows, savedIndex, sessionExpiry>>
    /\ UNCHANGED <<storageVars, bgVars, pageVars, now, keysGenerated, histVars>>
    /\ UNCHANGED <<restartVars, strayResponses, relayed, calc, resetPc, eventListeners, emitted>>

\* handleUnlock(enteredPassword) with the right password
handleUnlock ==
    /\ appOpen /\ ~isUnlocked
    /\ keysGenerated < MaxSessionKeys
    /\ LET sessionEncryptionKey == keysGenerated + 1
           sessionData == UnlockSessionData(savedIndex, sessionEncryptionKey)
           stored == MapSet(storageSession, "dapp_wallet_session", sessionData)
       IN /\ keysGenerated' = sessionEncryptionKey
          /\ isUnlocked' = TRUE
          /\ sessionKey' = sessionEncryptionKey
          /\ storageSession' = stored
          /\ handleSyncSession(sessionEncryptionKey, {}, stored)
    /\ sessionExpiry' = now + SESSION_DURATION
    /\ request' = IF dappApprovalId # 0 THEN fetchRequest(dappApprovalId) ELSE request
    /\ lockCompleted' = FALSE
    /\ UNCHANGED <<appOpen, dappApprovalId, clicks, createdWindows, savedIndex>>
    /\ UNCHANGED <<storageLocal, dappConnections, dappApprovals, pageVars, now>>
    /\ UNCHANGED <<received, invoked, approvalLog, signatures, broadcasts, registered>>
    /\ UNCHANGED <<restartVars, strayResponses, relayed, calc, resetPc, eventListeners, emitted>>

\* syncSessionToBackground(): the heartbeat of an unlocked App (and its
\* initial sync), with the keep-alive of the localStorage session
syncSessionToBackground ==
    /\ appOpen /\ isUnlocked
    /\ LET sessionData == SyncSessionData(savedIndex)
       IN /\ handleSyncSession(0, {sessionData}, storageSession)
          /\ storageSession' = MapSet(storageSession, "dapp_wallet_session", sessionData)
    /\ sessionExpiry' = now + SESSION_DURATION
    /\ UNCHANGED <<appOpen, isUnlocked, sessionKey, dappApprovalId, request, clicks,
                   createdWindows, savedIndex>>
    /\ UNCHANGED <<storageLocal, dappConnections, dappApprovals, pageVars, now,
                   keysGenerated, histVars>>
    /\ UNCHANGED <<restartVars, strayResponses, relayed, calc, resetPc, eventListeners, emitted>>

\* handleLock()
handleLock ==
    /\ appOpen /\ isUnlocked /\ dappApprovalId = 0
    /\ sessionExpiry' = -1
    /\ handleSyncSession(0, {}, storageSession)
    /\ storageSession' = MapDelete(storageSession, "dapp_wallet_session")
    /\ storageLocal' = MapDelete(storageLocal, "dapp_active_wallet")
    /\ isUnlocked' = FALSE
    /\ lockCompleted' = TRUE
    /\ UNCHANGED <<appOpen, sessionKey, dappApprovalId, request, clicks, createdWindows,
                   savedIndex>>
    /\ UNCHANGED <<dappConnections, dappApprovals, pageVars, now, keysGenerated>>
    /\ UNCHANGED <<received, invoked, approvalLog, signatures, broadcasts, registered>>
    /\ UNCHANGED <<restartVars, strayResponses, relayed, calc, resetPc, eventListeners, emitted>>

\* handleSwitchWallet(index)
handleSwitchWallet(a) ==
    /\ appOpen /\ isUnlocked /\ dappApprovalId = 0
    /\ a # savedIndex
    /\ savedIndex' = a
    /\ UNCHANGED <<appOpen, isUnlocked, sessionKey, dappApprovalId, request, clicks,
                   createdWindows, sessionExpiry>>
    /\ UNCHANGED <<storageVars, bgVars, pageVars, now, keysGenerated, histVars>>
    /\ UNCHANGED <<restartVars, strayResponses, relayed, calc, resetPc, eventListeners, emitted>>

\* ------------------------------------------------ in-page provider
Req(n) == reqs[n]

\* reqs with request n (a new one, or one in flight) now being r
Put(n, r) == IF n = Len(reqs) + 1 THEN Append(reqs, r) ELSE [reqs EXCEPT ![n] = r]

\* txParams a page passes to signTransaction / sendTransaction: with a
\* destination, or without one
TxParams == {[to |-> "octZ", amount |-> 10], [amount |-> 10]}

\* params the provider method builds for sendRequest; txParams is the
\* argument of signTransaction / sendTransaction
ProviderParams(o, method, id, txParams) ==
    CASE method = "connect" -> [appInfo |-> o]
      [] method \in {"disconnect", "getAccounts", "getPublicKey"} -> EmptyMap
      [] method = "signMessage" ->
            [payload |-> [version |-> "OSM-1", message |-> "hello",
                          address |-> provider[o].selectedAddress, domain |-> o,
                          nonce |-> id, timestamp |-> now]]
      [] OTHER -> [from |-> provider[o].selectedAddress] @@ txParams

\* The provider method may call sendRequest
MayCall(o, method) ==
    /\ Len(reqs) < MaxRequests
    /\ method \in {"signMessage", "signTransaction", "sendTransaction"}
           => provider[o].isConnected

\* sendRequest(method, params): the request it posts, with its timer armed
sendRequest(o, method, txParams) ==
    LET id == requestId[o] + 1
    IN [origin |-> o, id |-> id, method |-> method,
        params |-> ProviderParams(o, method, id, txParams),
        sentAt |-> now, timer |-> "armed", pc |-> "posted",
        approvalId |-> 0, outcome |-> EmptyMap, response |-> EmptyMap,
        call |-> "pending", settlement |-> EmptyMap,
        late |-> FALSE, settles |-> 0]

\* A provider that drops its connection whenever a call other than connect
\* resolves
C21_ProviderAfterAnyResult(o, method, response) ==
    IF Has(response, "error") THEN provider[o]
    ELSE IF method = "connect"
         THEN IF Has(response.result, "accounts") /\ Len(response.result.accounts) > 0
              THEN [isConnected |-> TRUE,
                    selectedAddress |-> response.result.selectedAddress,
                    networkId |-> response.result.networkId,
                    chainId |-> response.result.chainId]
              ELSE provider[o]
    ELSE [provider[o] EXCEPT !.isConnected = FALSE, !.selectedAddress = "null"]

\* provider state after the awaited sendRequest of connect()/disconnect() settled
ProviderAfter(o, method, response) ==
    IF Has(response, "error") THEN provider[o]
    ELSE IF method = "connect"
         THEN IF Has(response.result, "accounts") /\ Len(response.result.accounts) > 0
              THEN [isConnected |-> TRUE,
                    selectedAddress |-> response.result.selectedAddress,
                    networkId |-> response.result.networkId,
                    chainId |-> response.result.chainId]
              ELSE provider[o]
    ELSE IF method = "disconnect"
         THEN [provider[o] EXCEPT !.isConnected = FALSE, !.selectedAddress = "null"]
    ELSE provider[o]

\* A listener that settles the call and leaves its entry in the table
C20_ListenerKeepsEntry(pending, id) == pending

\* pendingRequests.delete(id) of the message listener
TableAfterSettle(pending, id) == pending \ {id}

\* A relay that answers an error of the broker with the error of its catch
\* block
C40_RelayMasksError(reply) ==
    IF reply = {} \/ Has(The(reply), "error")
    THEN [error |-> [code |-> 4900, message |-> "Internal error"]]
    ELSE [k \in DOMAIN The(reply) \cap {"result", "error"} |-> The(reply)[k]]

\* The OCTRA_RESPONSE the relay posts for a request, less its type and id:
\* result and error of the broker's reply, or the error of the catch block
\* when chrome.runtime.sendMessage failed or yielded no reply (reply = {})
OctraResponse(reply) ==
    IF reply = {} THEN [error |-> [code |-> 4900, message |-> "Internal error"]]
    ELSE [k \in DOMAIN The(reply) \cap {"result", "error"} |-> The(reply)[k]]

\* The relay posts OCTRA_RESPONSE `response` and the provider's message
\* listener settles call r.id with it, if it is still in the correlation
\* table (pending is the pendingRequests of r's page)
Post(n, r, response, pending) ==
    IF r.id \in pending
    THEN /\ pendingRequests' = [pendingRequests EXCEPT
                                    ![r.origin] = TableAfterSettle(pending, r.id)]
         /\ reqs' = Put(n, [r EXCEPT !.pc = "done", !.response = response,
                        !.call = IF Has(response, "error") THEN "rejected" ELSE "resolved",
                        !.settlement = response, !.settles = @ + 1])
         /\ provider' = [provider EXCEPT ![r.origin] = ProviderAfter(r.origin, r.method, response)]
    ELSE /\ pendingRequests' = [pendingRequests EXCEPT ![r.origin] = pending]
         /\ reqs' = Put(n, [r EXCEPT !.pc = "done", !.response = response])
         /\ UNCHANGED provider

\* The broker's handler returns `response` and the relay answers the page
Respond(n, r, response, pending) == Post(n, r, OctraResponse({response}), pending)

\* A timer whose callback leaves the call and its table entry alone
C10_TimeoutKeepsEntry(n) ==
    /\ n \in DOMAIN reqs
    /\ Req(n).timer = "armed"
    /\ now >= Req(n).sentAt + RequestTimeout
    /\ reqs' = Put(n, [Req(n) EXCEPT !.timer = "fired"])
    /\ UNCHANGED <<requestId, pendingRequests, provider, uiVars, storageVars, bgVars,
                   now, keysGenerated, histVars>>
    /\ UNCHANGED <<restartVars, strayResponses, relayed, calc, resetPc, eventListeners, emitted>>

\* The setTimeout callback of sendRequest
RequestTimeoutFires(n) ==
    /\ n \in DOMAIN reqs
    /\ Req(n).timer = "armed"
    /\ now >= Req(n).sentAt + RequestTimeout
    /\ LET r == Req(n)
           o == r.origin
       IN IF r.id \in pendingRequests[o]
          THEN /\ pendingRequests' = [pendingRequests EXCEPT ![o] = @ \ {r.id}]
               /\ reqs' = Put(n, [r EXCEPT !.timer = "fired", !.call = "rejected",
                              !.settles = @ + 1,
                              !.settlement = [error |-> [code |-> 4100,
                                                         message |-> "Request timeout"]]])
          ELSE /\ reqs' = Put(n, [r EXCEPT !.timer = "fired"])
               /\ UNCHANGED pendingRequests
    /\ UNCHANGED <<requestId, provider, uiVars, storageVars, bgVars, now, keysGenerated, histVars>>
    /\ UNCHANGED <<restartVars, strayResponses, relayed, calc, resetPc, eventListeners, emitted>>

\* OCTRA_RESPONSE messages a script of the page can post to its own window
StrayMessages ==
    {[result |-> [forged |-> TRUE]],
     [error |-> [code |-> 4900, message |-> "Internal error"]]}

\* Why the table of page o has no entry for id
WhyAbsent(o, id) ==
    IF \A n \in DOMAIN reqs : Req(n).origin # o \/ Req(n).id # id THEN "unknown"
    ELSE LET n == CHOOSE n \in DOMAIN reqs : Req(n).origin = o /\ Req(n).id = id
         IN IF Req(n).settlement = [error |-> [code |-> 4100, message |-> "Request timeout"]]
            THEN "timed out" ELSE "answered"

\* The provider's message listener on an OCTRA_RESPONSE {id, result | error}
\* that no relay step of this model posted: a duplicate, or a message with
\* an id of the page's choice
ResponseListener(o, id, response) ==
    /\ strayResponses.count < MaxStray
    /\ IF id \in pendingRequests[o]
       THEN LET n == CHOOSE n \in DOMAIN reqs : Req(n).origin = o /\ Req(n).id = id
            IN /\ pendingRequests' = [pendingRequests EXCEPT
                                          ![o] = TableAfterSettle(pendingRequests[o], id)]
               /\ reqs' = Put(n, [Req(n) EXCEPT
                              !.call = IF Has(response, "error") THEN "rejected" ELSE "resolved",
                              !.settlement = response, !.settles = @ + 1])
               /\ provider' = [provider EXCEPT ![o] = ProviderAfter(o, Req(n).method, response)]
               /\ strayResponses' = [strayResponses EXCEPT !.count = @ + 1]
       ELSE /\ strayResponses' = [count |-> strayResponses.count + 1,
                                  ignored |-> strayResponses.ignored \cup {WhyAbsent(o, id)}]
            /\ UNCHANGED <<pendingRequests, reqs, provider>>
    /\ UNCHANGED <<requestId, uiVars, storageVars, bgVars, now, keysGenerated, histVars,
                   restartVars, relayed, calc, resetPc, eventListeners, emitted>>

\* A minute passes; a due timer and a handler whose await has settled run
\* before time moves on
Tick ==
    /\ now < MaxTime
    /\ \A n \in DOMAIN reqs : Req(n).pc # "settled"
    /\ \A n \in DOMAIN reqs : Req(n).timer = "armed" => now < Req(n).sentAt + RequestTimeout
    /\ now' = now + 1
    /\ UNCHANGED <<uiVars, storageVars, bgVars, pageVars, keysGenerated, histVars>>
    /\ UNCHANGED <<restartVars, strayResponses, relayed, calc, resetPc, eventListeners, emitted>>

\* ------------------------------------------------ background: dApp requests
NotConnected == [error |-> [code |-> 4100, message |-> "Not connected"]]

\* !connection || !connection.connected
IsConnected(o) == Has(dappConnections, o) /\ dappConnections[o].connected

\* saveConnections() after dappConnections became `connections`
saveConnections(connections) ==
    storageLocal' = MapSet(storageLocal, "dapp_connections", connections)

\* chrome.storage.local holds a Connection of origin o
PersistedConnection(o) ==
    /\ Has(storageLocal, "dapp_connections")
    /\ Has(storageLocal["dapp_connections"], o)
    /\ storageLocal["dapp_connections"][o].connected

\* requestApproval(origin, type, params, wallet): the approval is stored, the
\* approval window is asked for, and the handler waits on the promise
requestApproval(n, r, type, params, W) ==
    LET approvalId == Cardinality(DOMAIN approvalLog) + 1
    IN /\ dappApprovals' = MapSet(dappApprovals, approvalId,
              [type |-> type, origin |-> r.origin, params |-> params,
               wallet |-> W, timestamp |-> now, req |-> n])
       /\ createdWindows' = createdWindows \cup {approvalId}
       /\ reqs' = Put(n, [r EXCEPT !.pc = "awaiting", !.approvalId = approvalId])
       /\ approvalLog' = MapSet(approvalLog, approvalId,
              [type |-> type, origin |-> r.origin, req |-> n,
               persisted |-> PersistedConnection(r.origin)])
       /\ received' = MapSet(received, approvalId, {})
       /\ invoked' = MapSet(invoked, approvalId, 0)

\* handleConnect(origin, title, favicon, params), up to the await of
\* requestApproval
handleConnect(n, r, pending) ==
    LET o == r.origin
    IN IF IsConnected(o)
       THEN /\ Respond(n, r, [result |->
                   [accounts |-> <<dappConnections[o].address>>,
                    selectedAddress |-> dappConnections[o].address,
                    networkId |-> dappConnections[o].networkId,
                    chainId |-> dappConnections[o].chainId]], pending)
            /\ UNCHANGED <<activeSessionCache, dappApprovals, createdWindows,
                           approvalLog, received, invoked>>
       ELSE /\ activeSessionCache' = SessionFor(activeSessionCache, storageSession)
            /\ requestApproval(n, r, "connect", [title |-> o, favicon |-> o],
                               getWalletFromStorage)
            /\ pendingRequests' = [pendingRequests EXCEPT ![o] = pending]
            /\ UNCHANGED provider

\* provider.connect(): sendRequest('connect'), relayed to handleConnect
connect(o) ==
    /\ MayCall(o, "connect")
    /\ LET r == sendRequest(o, "connect", EmptyMap)
       IN /\ requestId' = [requestId EXCEPT ![o] = r.id]
          /\ handleConnect(Len(reqs) + 1, r, pendingRequests[o] \cup {r.id})
    /\ UNCHANGED <<appOpen, isUnlocked, sessionKey, dappApprovalId, request, clicks,
                   savedIndex, sessionExpiry>>
    /\ UNCHANGED <<storageVars, memorySessionKey, dappConnections, now, keysGenerated>>
    /\ UNCHANGED <<signatures, broadcasts, registered, lockCompleted>>
    /\ UNCHANGED <<restartVars, strayResponses, relayed, calc, resetPc, eventListeners, emitted>>

\* handleDisconnect(origin)
handleDisconnect(n, r, pending) ==
    /\ dappConnections' = MapDelete(dappConnections, r.origin)
    /\ saveConnections(dappConnections')
    /\ Respond(n, r, [result |-> TRUE], pending)

\* provider.disconnect(): sendRequest('disconnect'), relayed to handleDisconnect
disconnect(o) ==
    /\ MayCall(o, "disconnect")
    /\ LET r == sendRequest(o, "disconnect", EmptyMap)
       IN /\ requestId' = [requestId EXCEPT ![o] = r.id]
          /\ handleDisconnect(Len(reqs) + 1, r, pendingRequests[o] \cup {r.id})
    /\ UNCHANGED <<uiVars, storageSession, activeSessionCache, memorySessionKey,
                   dappApprovals, now, keysGenerated, histVars>>
    /\ lastOp' = [lastOp EXCEPT ![o] = "removed"]
    /\ UNCHANGED <<connectionsLoad, restarts, strayResponses, relayed, calc, resetPc, eventListeners, emitted>>

\* A click on Disconnect in the wallet's list of connected sites:
\* POPUP_REQUEST { action: 'disconnectOrigin' }, handled by handlePopupRequest
disconnectOrigin(o) ==
    /\ appOpen /\ isUnlocked /\ dappApprovalId = 0
    /\ Has(dappConnections, o)
    /\ dappConnections' = MapDelete(dappConnections, o)
    /\ saveConnections(dappConnections')
    /\ lastOp' = [lastOp EXCEPT ![o] = "removed"]
    /\ UNCHANGED <<uiVars, storageSession, activeSessionCache, memorySessionKey,
                   dappApprovals, pageVars, now, keysGenerated, histVars>>
    /\ UNCHANGED <<connectionsLoad, restarts, strayResponses, relayed, calc, resetPc,
                   eventListeners, emitted>>

\* An unconnected provider that answers from an account list of its own
C22_LocalAnswerWithAccount(method) == [result |-> <<"octA">>]

\* What getAccounts() / getPublicKey() settle with when this.isConnected is
\* false: `return []`, `throw { code: 4100, message: 'Not connected' }`
LocalAnswer(method) ==
    IF method = "getAccounts" THEN [result |-> <<>>] ELSE NotConnected

\* A provider call that settled without a request being posted
LocalCall(o, method, answer) ==
    [origin |-> o, id |-> 0, method |-> method, params |-> EmptyMap,
     sentAt |-> now, timer |-> "none", pc |-> "done",
     approvalId |-> 0, outcome |-> EmptyMap, response |-> EmptyMap,
     call |-> IF Has(answer, "error") THEN "rejected" ELSE "resolved",
     settlement |-> answer, late |-> FALSE, settles |-> 1]

\* handleGetAccounts(origin)
handleGetAccounts(o) ==
    IF ~IsConnected(o) THEN [result |-> <<>>]
    ELSE [result |-> <<dappConnections[o].address>>]

\* handleGetPublicKey(origin), getWalletFromStorage yielding W
handleGetPublicKey(o, W) ==
    IF ~IsConnected(o) THEN NotConnected
    ELSE IF W = {} THEN [error |-> [code |-> 4100, message |-> "Wallet not found"]]
    ELSE [result |-> IF Has(The(W), "publicKeyB64") THEN The(W).publicKeyB64
                     ELSE "undefined"]

\* provider.getAccounts() / provider.getPublicKey(): answered by the provider
\* itself when it is not connected, else sendRequest relayed to the handler
query(o, method) ==
    /\ method \in {"getAccounts", "getPublicKey"}
    /\ Len(reqs) < MaxRequests
    /\ IF ~provider[o].isConnected
       THEN /\ reqs' = Append(reqs, LocalCall(o, method, LocalAnswer(method)))
            /\ UNCHANGED <<requestId, pendingRequests, provider, activeSessionCache>>
       ELSE LET r == sendRequest(o, method, EmptyMap)
            IN /\ requestId' = [requestId EXCEPT ![o] = r.id]
               /\ activeSessionCache' =
                      IF method = "getPublicKey" /\ IsConnected(o)
                      THEN SessionFor(activeSessionCache, storageSession)
                      ELSE activeSessionCache
               /\ Respond(Len(reqs) + 1, r,
                          IF method = "getAccounts" THEN handleGetAccounts(o)
                          ELSE handleGetPublicKey(o, getWalletFromStorage),
                          pendingRequests[o] \cup {r.id})
    /\ UNCHANGED <<uiVars, storageVars, memorySessionKey, dappConnections, dappApprovals,
                   now, keysGenerated, histVars, restartVars, strayResponses, relayed, calc, resetPc, eventListeners, emitted>>

\* ---------------------------------------------- content script (relay)
\* Messages the window of a page can receive from scripts other than the
\* provider: posted by the window itself or by another frame, of a type the
\* relay knows or not, and carrying origin, title and favicon fields of the
\* sender's choice
WindowMessages ==
    [source : {"window", "frame"}, type : {"OCTRA_REQUEST", "OCTRA_RESPONSE"},
     method : {"connect", "disconnect"}, origin : Origins]

\* A relay that takes requests from every frame
C23_AcceptsAnySource(event) == event.type = "OCTRA_REQUEST"

\* The listener's guards: event.source === window and
\* event.data.type === 'OCTRA_REQUEST'
Accepts(event) == event.source = "window" /\ event.type = "OCTRA_REQUEST"

\* The DAPP_REQUEST the relay of page o sends for the message
DappRequest(o, event) ==
    [type |-> "DAPP_REQUEST", id |-> 0, method |-> event.method,
     params |-> EmptyMap, origin |-> o, title |-> o, favicon |-> o]

\* The relay's message listener on a window message of page o that the
\* provider did not post, and the broker's handling of what it forwards
relayMessage(o, event) ==
    /\ relayed.count < MaxMessages
    /\ IF Accepts(event)
       THEN LET msg == DappRequest(o, event)
                r == [origin |-> msg.origin, id |-> msg.id, method |-> msg.method,
                      params |-> msg.params, sentAt |-> now, timer |-> "none",
                      pc |-> "posted", approvalId |-> 0, outcome |-> EmptyMap,
                      response |-> EmptyMap, call |-> "none", settlement |-> EmptyMap,
                      late |-> FALSE, settles |-> 0]
            IN /\ Len(reqs) < MaxRequests
               /\ relayed' = [count |-> relayed.count + 1,
                              last |-> {[page |-> o, event |-> event, sent |-> {msg}]}]
               /\ IF msg.method = "connect"
                  THEN /\ handleConnect(Len(reqs) + 1, r, pendingRequests[o])
                       /\ UNCHANGED <<dappConnections, storageLocal, lastOp>>
                  ELSE /\ handleDisconnect(Len(reqs) + 1, r, pendingRequests[o])
                       /\ lastOp' = [lastOp EXCEPT ![o] = "removed"]
                       /\ UNCHANGED <<activeSessionCache, dappApprovals, createdWindows,
                                      approvalLog, received, invoked>>
       ELSE /\ relayed' = [count |-> relayed.count + 1,
                           last |-> {[page |-> o, event |-> event, sent |-> {}]}]
            /\ UNCHANGED <<reqs, pendingRequests, provider, activeSessionCache,
                           dappApprovals, createdWindows, approvalLog, received, invoked,
                           dappConnections, storageLocal, lastOp>>
    /\ UNCHANGED <<appOpen, isUnlocked, sessionKey, dappApprovalId, request, clicks,
                   savedIndex, sessionExpiry, storageSession, memorySessionKey, requestId,
                   now, keysGenerated, signatures, broadcasts, registered, lockCompleted,
                   connectionsLoad, restarts, strayResponses, calc, resetPc, eventListeners, emitted>>

\* The checks handleSignMessage, handleSignTransaction and handleSendTransaction
\* open with: {response} when they return early, {} when they go on
EarlyReturn(method, o, W) ==
    IF ~IsConnected(o) THEN {NotConnected}
    ELSE IF W = {}
         THEN {[error |-> [string |-> IF method = "signMessage" THEN "Wallet not found"
                                      ELSE "Wallet not found. Please connect first."]]}
    ELSE IF ~HasKey(W)
         THEN {[error |-> [string |-> IF method = "signMessage"
                                      THEN "Wallet locked. Please unlock."
                                      ELSE IF method = "signTransaction"
                                      THEN "Wallet locked. Please unlock to sign transaction."
                                      ELSE "Wallet locked. Please unlock to send transaction."]]}
    ELSE {}

\* Nonces the balance endpoint reports for the wallet
NetNonces == {7}

\* ensureNonce(txParams, address): txParams afterwards; lookup is the nonce
\* the network returned, or -1 when the lookup failed
ensureNonce(txParams, lookup) ==
    IF Has(txParams, "nonce") THEN txParams
    ELSE [nonce |-> IF lookup >= 0 THEN lookup + 1 ELSE now] @@ txParams

\* handleDappRequest(message, sender) when getWalletFromStorage yields W: the
\* answer the handler returns at once, or the approval it asks for
DappAnswer(method, o, W) ==
    CASE method = "connect" ->
            IF IsConnected(o)
            THEN [result |-> [accounts |-> <<dappConnections[o].address>>]]
            ELSE [approval |-> "connect"]
      [] method = "disconnect" -> [result |-> TRUE]
      [] OTHER ->
            IF EarlyReturn(method, o, W) # {} THEN The(EarlyReturn(method, o, W))
            ELSE [approval |-> method]

\* handleSignMessage / handleSignTransaction / handleSendTransaction, up to
\* the await of requestApproval
handleSign(n, r, pending) ==
    LET o == r.origin
        W == getWalletFromStorage
        early == EarlyReturn(r.method, o, W)
    IN /\ activeSessionCache' =
              IF IsConnected(o) THEN SessionFor(activeSessionCache, storageSession)
              ELSE activeSessionCache
       /\ IF early # {}
          THEN /\ Respond(n, r, The(early), pending)
               /\ UNCHANGED <<dappApprovals, createdWindows, approvalLog, received, invoked>>
          ELSE /\ \E lookup \in NetNonces \cup {-1} :
                     /\ r.method = "signMessage" => lookup = -1
                     /\ requestApproval(n, r, r.method,
                            IF r.method = "signMessage" THEN r.params
                            ELSE ensureNonce(r.params, lookup), W)
               /\ pendingRequests' = [pendingRequests EXCEPT ![o] = pending]
               /\ UNCHANGED provider

\* provider.signMessage / signTransaction / sendTransaction: sendRequest,
\* relayed to the method's handler
sign(o, method) ==
    /\ method \in {"signMessage", "signTransaction", "sendTransaction"}
    /\ MayCall(o, method)
    /\ \E txParams \in TxParams :
          LET r == sendRequest(o, method, txParams)
          IN /\ method = "signMessage" => Has(txParams, "to")
             /\ requestId' = [requestId EXCEPT ![o] = r.id]
             /\ handleSign(Len(reqs) + 1, r, pendingRequests[o] \cup {r.id})
    /\ UNCHANGED <<appOpen, isUnlocked, sessionKey, dappApprovalId, request, clicks,
                   savedIndex, sessionExpiry>>
    /\ UNCHANGED <<storageVars, memorySessionKey, dappConnections, now, keysGenerated>>
    /\ UNCHANGED <<signatures, broadcasts, registered, lockCompleted>>
    /\ UNCHANGED <<restartVars, strayResponses, relayed, calc, resetPc, eventListeners, emitted>>

\* Objects a page passes to provider.signMessage in place of a string: naming
\* a domain, or an address, of its own choosing
MessagePayloads ==
    { [message |-> "hello", domain |-> d] : d \in Origins }
       \cup { [message |-> "hello", address |-> a] : a \in Addresses }

\* provider.signMessage(messageOrPayload) with an object: the payload keeps the
\* object's address and domain where it names them; relayed to
\* handleSignMessage
signMessage(o, messageOrPayload) ==
    /\ MayCall(o, "signMessage")
    /\ LET id == requestId[o] + 1
           payload ==
               [version |-> "OSM-1", message |-> messageOrPayload.message,
                address |-> IF Has(messageOrPayload, "address")
                            THEN messageOrPayload.address
                            ELSE provider[o].selectedAddress,
                domain |-> IF Has(messageOrPayload, "domain")
                           THEN messageOrPayload.domain ELSE o,
                nonce |-> id, timestamp |-> now]
           r == [sendRequest(o, "signMessage", EmptyMap)
                    EXCEPT !.params = [payload |-> payload]]
       IN /\ requestId' = [requestId EXCEPT ![o] = r.id]
          /\ handleSign(Len(reqs) + 1, r, pendingRequests[o] \cup {r.id})
    /\ UNCHANGED <<appOpen, isUnlocked, sessionKey, dappApprovalId, request, clicks,
                   savedIndex, sessionExpiry>>
    /\ UNCHANGED <<storageVars, memorySessionKey, dappConnections, now, keysGenerated>>
    /\ UNCHANGED <<signatures, broadcasts, registered, lockCompleted>>
    /\ UNCHANGED <<restartVars, strayResponses, relayed, calc, resetPc, eventListeners, emitted>>

\* ------------------------------------------- background: signing helpers
\* The validation of signTransactionOnly passes: !tx.from || !tx.to_ is false
ValidTx(params, wallet) == Has(params, "to") /\ Has(wallet, "address")

\* JSON.stringify of a string and of a number
JsonString(str) == "\"" \o str \o "\""

JsonNumber(n) == ToString(n)

\* tx of signTransactionOnly: amounts in micro units as strings, a nonce of
\* 0 or none replaced by Date.now(), message only when it is truthy
TxOf(params, wallet) ==
    LET core == [from |-> wallet.address, to_ |-> params.to,
                 amount |-> IF Has(params, "amountRaw") THEN params.amountRaw
                            ELSE ToString(params.amount * 1000000),
                 nonce |-> IF Has(params, "nonce") /\ params.nonce # 0
                           THEN params.nonce ELSE now,
                 ou |-> IF Has(params, "fee") /\ params.fee # 0
                        THEN ToString(params.fee * 1000000) ELSE "2000",
                 timestamp |-> now]
    IN IF Has(params, "message") /\ params.message # ""
       THEN [message |-> params.message] @@ core
       ELSE core

\* A signer that serializes the whole transaction
C27_SignsWholeTransaction(tx) ==
    "{\"from\":" \o JsonString(tx.from) \o ",\"to_\":" \o JsonString(tx.to_)
        \o ",\"amount\":" \o JsonString(tx.amount) \o ",\"nonce\":"
        \o JsonNumber(tx.nonce) \o ",\"ou\":" \o JsonString(tx.ou)
        \o ",\"timestamp\":" \o JsonNumber(tx.timestamp)
        \o (IF Has(tx, "message") THEN ",\"message\":" \o JsonString(tx.message) ELSE "")
        \o "}"

\* signPayload of signTransactionOnly: JSON.stringify of the six signed fields
signPayload(tx) ==
    "{\"from\":" \o JsonString(tx.from) \o ",\"to_\":" \o JsonString(tx.to_)
        \o ",\"amount\":" \o JsonString(tx.amount) \o ",\"nonce\":"
        \o JsonNumber(tx.nonce) \o ",\"ou\":" \o JsonString(tx.ou)
        \o ",\"timestamp\":" \o JsonNumber(tx.timestamp) \o "}"

\* signTransactionOnly(params, wallet): the signed transaction, when the
\* validation passes
signTransactionOnly(params, wallet) ==
    LET tx == TxOf(params, wallet)
    IN [signature |-> [signedWith |-> KeyOf(wallet), bytes |-> signPayload(tx)],
        public_key |-> IF Has(wallet, "publicKeyB64") THEN wallet.publicKeyB64
                       ELSE "undefined"] @@ tx

\* ---------------------------------------------- OSM-1 serialization
\* A JS object is the sequence of its entries <<key, V>> in insertion order,
\* V = {} for a value of undefined and {value} otherwise.
\* Object.keys(payload)
ObjectKeys(payload) == [i \in DOMAIN payload |-> payload[i][1]]

\* payload[key]
Get(payload, key) == payload[CHOOSE i \in DOMAIN payload : payload[i][1] = key][2]

\* The keys of OSM-1 payloads in the order Array.prototype.sort gives them
\* (by UTF-16 code units)
KeyOrder ==
    <<"address", "chainId", "domain", "expiresAt", "message", "nonce", "timestamp",
      "version">>

\* A serializer that leaves the keys in insertion order
C28_InsertionOrder(keys) == keys

\* keys.sort()
sort(keys) == SelectSeq(KeyOrder, LAMBDA k : \E i \in DOMAIN keys : keys[i] = k)

\* sortedPayload: the entries in the order of the sorted keys, without the
\* undefined ones
SortedPayload(payload) ==
    LET sortedKeys == sort(ObjectKeys(payload))
    IN SelectSeq([i \in DOMAIN sortedKeys |-> <<sortedKeys[i], Get(payload, sortedKeys[i])>>],
                 LAMBDA entry : entry[2] # {})

\* JSON.stringify of a string or number value
JsonValue(v) == ToString(v)

\* The members of JSON.stringify(object), which skips undefined values
RECURSIVE JsonMembers(_)
JsonMembers(entries) ==
    IF entries = <<>> THEN ""
    ELSE LET entry == Head(entries)
             rest == JsonMembers(Tail(entries))
         IN IF entry[2] = {} THEN rest
            ELSE JsonString(entry[1]) \o ":" \o JsonValue(The(entry[2]))
                     \o (IF rest = "" THEN "" ELSE ",") \o rest

\* JSON.stringify(object)
JsonStringify(entries) == "{" \o JsonMembers(entries) \o "}"

\* serializePayload(payload), and step 2 of signMessageWithKey
serializePayload(payload) == JsonStringify(SortedPayload(payload))

\* MESSAGE_PREFIX (its first character, \x19, written as ^)
MESSAGE_PREFIX == "^Octra Signed Message:\n"

\* createSigningMessage(payload), and step 3 of signMessageWithKey
createSigningMessage(payload) ==
    LET serialized == serializePayload(payload)
    IN MESSAGE_PREFIX \o ToString(Len(serialized)) \o "\n" \o serialized

\* The payload object provider.signMessage builds from a string, as entries
PayloadEntries(p) ==
    << <<"version", {p.version}>>, <<"message", {p.message}>>, <<"address", {p.address}>>,
       <<"domain", {p.domain}>>, <<"nonce", {p.nonce}>>, <<"timestamp", {p.timestamp}>> >>

\* signMessageWithKey(payload, privateKeyB64): its own sorting, serializing
\* and prefixing, and the signature over fullMessage
signMessageWithKey(payload, pk) ==
    LET sortedKeys == sort(ObjectKeys(payload))
        sortedPayload ==
            SelectSeq([i \in DOMAIN sortedKeys |->
                          <<sortedKeys[i], Get(payload, sortedKeys[i])>>],
                      LAMBDA entry : entry[2] # {})
        serialized == JsonStringify(sortedPayload)
        PREFIX == "^Octra Signed Message:\n"
        fullMessage == PREFIX \o ToString(Len(serialized)) \o "\n" \o serialized
    IN [signedWith |-> pk, bytes |-> fullMessage]

\* The public key of the nacl key pair made from private key sk
PublicKeyOf(sk) == (CHOOSE w \in Wallets : w.privateKeyB64 = sk).publicKeyB64

\* nacl.sign.detached.verify(bytes, signature, publicKey)
naclVerify(bytes, signature, publicKey) ==
    /\ publicKey \in {w.publicKeyB64 : w \in Wallets}
    /\ signature.bytes = bytes
    /\ PublicKeyOf(signature.signedWith) = publicKey

\* The address derived from a public key
AddressOf(publicKey) == (CHOOSE w \in Wallets : w.publicKeyB64 = publicKey).address

\* payload[key] when the object may lack the key: {} is undefined
Lookup(payload, key) ==
    IF \E i \in DOMAIN payload : payload[i][1] = key THEN Get(payload, key) ELSE {}

\* The catch of verifyOSM1Signature
VerifyFailed == [valid |-> FALSE, error |-> "error.message"]

\* verifyOSM1Signature(response, nacl, options) at time `now`. The fields of
\* response are {} when undefined; reading the payload, or decoding a
\* signature or public key that is undefined, throws
verifyOSM1Signature(response, options) ==
    IF response.payload = {} \/ response.signature = {} \/ response.publicKey = {}
    THEN VerifyFailed
    ELSE LET payload == The(response.payload)
             publicKey == The(response.publicKey)
             signatureValid ==
                 naclVerify(createSigningMessage(payload), The(response.signature), publicKey)
             versionValid == Lookup(payload, "version") = {"OSM-1"}
             domainMatch ==
                 options.expectedDomain = {}
                     \/ Lookup(payload, "domain") = options.expectedDomain
             notExpired ==
                 \/ ~options.checkExpiry
                 \/ Lookup(payload, "expiresAt") \in {{}, {0}}
                 \/ now < The(Lookup(payload, "expiresAt"))
             addressMatch == AddressOf(publicKey) = response.address
         IN [valid |-> signatureValid /\ versionValid /\ domainMatch /\ notExpired
                           /\ addressMatch,
             validations |-> [signatureValid |-> signatureValid,
                              versionValid |-> versionValid,
                              domainMatch |-> domainMatch,
                              notExpired |-> notExpired,
                              addressMatch |-> addressMatch]]

\* --------------------------------------- background: RESOLVE_APPROVAL
\* A broker that takes every decision for an approval
C1_AnyDecisionApproves(decision) == decision \in {"approved", "rejected"}

\* decision === 'approved'
IsApproved(decision) == decision = "approved"

\* signingWallet of handleResolveApproval: the approval's wallet when it
\* carries a key, else the wallet getWalletFromStorage yields now
SigningWallet(snapshot, fresh) == IF HasKey(snapshot) THEN snapshot ELSE fresh

\* What the approved branch passes to the continuation: [resolve |-> value]
\* or [reject |-> error]; sent tells whether /send-tx accepted the transaction
ApprovedOutcome(approval, signing, sent) ==
    IF ~HasKey(signing)
    THEN [reject |-> [code |-> 5000,
                      message |-> "Wallet is locked. Please unlock the extension."]]
    ELSE LET w == The(signing) IN
         CASE approval.type \in {"sendTransaction", "signTransaction"}
                    /\ ~ValidTx(approval.params, w) ->
                [reject |-> [code |-> 5000, message |->
                    "Invalid transaction parameters: From and To are required"]]
           [] approval.type = "sendTransaction" ->
                IF sent
                THEN [resolve |-> [result |->
                         [signedTransaction |-> signTransactionOnly(approval.params, w),
                          txHash |-> "hash", broadcast |-> TRUE]]]
                ELSE [reject |-> [code |-> 5000, message |-> "Broadcast failed"]]
           [] approval.type = "signTransaction" ->
                [resolve |-> [result |-> signTransactionOnly(approval.params, w)]]
           [] approval.type = "signMessage" ->
                [resolve |-> [result |->
                    [signature |-> signMessageWithKey(PayloadEntries(approval.params.payload),
                                                     KeyOf(w)),
                     publicKey |-> IF Has(w, "publicKeyB64") THEN w.publicKeyB64
                                   ELSE "undefined",
                     address |-> w.address,
                     payload |-> approval.params.payload]]]
           [] OTHER -> [resolve |-> [result |-> [allowed |-> TRUE]]]

\* A broker that reports a rejection as an internal error
C6_RejectedAsInternal == [reject |-> [code |-> 5000, message |-> "User rejected request"]]

\* approval.reject({ code: 4001, message: 'User rejected request' })
UserRejected == [reject |-> [code |-> 4001, message |-> "User rejected request"]]

\* The approval leaves the map when handleResolveApproval found it
AfterResolve(id) == MapDelete(dappApprovals, id)

\* handleResolveApproval(data), data = {id, decision, sessionKey, result}
handleResolveApproval(id, decision, key) ==
    LET newKey == IF key # 0 THEN key ELSE memorySessionKey
    IN /\ memorySessionKey' = newKey
       /\ IF ~Has(dappApprovals, id)
          THEN UNCHANGED <<activeSessionCache, dappApprovals, reqs, received, invoked,
                           signatures, broadcasts>>
          ELSE LET approval == dappApprovals[id]
                   n == approval.req
                   S == SessionFor(activeSessionCache, storageSession)
                   fresh == WalletFrom(S, newKey)
                   signing == SigningWallet(approval.wallet, fresh)
                   signs == /\ IsApproved(decision) /\ HasKey(signing)
                            /\ approval.type # "connect"
                            /\ approval.type \in {"sendTransaction", "signTransaction"}
                                  => ValidTx(approval.params, The(signing))
               IN /\ dappApprovals' = AfterResolve(id)
                  /\ received' = [received EXCEPT ![id] = @ \cup {decision}]
                  /\ invoked' = [invoked EXCEPT ![id] = @ + 1]
                  /\ activeSessionCache' =
                        IF IsApproved(decision) /\ ~HasKey(approval.wallet)
                        THEN S ELSE activeSessionCache
                  /\ signatures' =
                        IF signs
                        THEN signatures \cup
                             {[approvalId |-> id, type |-> approval.type,
                               origin |-> approval.origin,
                               signedWith |-> KeyOf(The(signing)),
                               address |-> The(signing).address,
                               current |-> IF HasKey(fresh) THEN KeyOf(The(fresh))
                                           ELSE "locked",
                               currentAddress |-> IF HasKey(fresh) THEN The(fresh).address
                                                  ELSE "locked"]}
                        ELSE signatures
                  /\ broadcasts' =
                        IF signs /\ approval.type = "sendTransaction"
                        THEN broadcasts \cup {[approvalId |-> id,
                                 tx |-> signTransactionOnly(approval.params, The(signing))]}
                        ELSE broadcasts
                  /\ \E sent \in BOOLEAN :
                        /\ ~(signs /\ approval.type = "sendTransaction") => sent
                        /\ reqs' = IF Req(n).pc = "awaiting"
                                    THEN Put(n, [Req(n) EXCEPT !.pc = "settled",
                                           !.outcome = IF IsApproved(decision)
                                                       THEN ApprovedOutcome(approval, signing, sent)
                                                       ELSE UserRejected,
                                           !.late = Req(n).id \notin
                                                       pendingRequests[Req(n).origin]])
                                    ELSE reqs

\* ------------------------------- background: the handlers after the await
\* handleConnect after `await requestApproval(...)` settled
resumeConnect(n) ==
    /\ n \in DOMAIN reqs
    /\ Req(n).pc = "settled" /\ Req(n).method = "connect"
    /\ LET r == Req(n)
           o == r.origin
           W == getWalletFromStorage
           pending == pendingRequests[o]
       IN IF Has(r.outcome, "reject")
          THEN /\ Respond(n, r, [error |-> [code |-> r.outcome.reject.code,
                                            message |-> r.outcome.reject.message]], pending)
               /\ UNCHANGED <<activeSessionCache, dappConnections, storageLocal, registered,
                              lastOp>>
          ELSE /\ activeSessionCache' = SessionFor(activeSessionCache, storageSession)
               /\ IF ~HasKey(W)
                  THEN /\ Respond(n, r, [error |-> [string |-> "Wallet still locked"]], pending)
                       /\ UNCHANGED <<dappConnections, storageLocal, registered, lastOp>>
                  ELSE /\ dappConnections' = MapSet(dappConnections, o,
                              [origin |-> o, title |-> o, favicon |-> o,
                               address |-> The(W).address, connected |-> TRUE,
                               connectedAt |-> now, networkId |-> "mainnet", chainId |-> 2])
                       /\ saveConnections(dappConnections')
                       /\ registered' = registered \cup
                              {[origin |-> o, approvalId |-> r.approvalId]}
                       /\ lastOp' = [lastOp EXCEPT ![o] = "added"]
                       /\ Respond(n, r, [result |->
                              [accounts |-> <<The(W).address>>,
                               selectedAddress |-> The(W).address,
                               publicKey |-> IF Has(The(W), "publicKeyB64")
                                             THEN The(W).publicKeyB64 ELSE "undefined",
                               networkId |-> "mainnet", chainId |-> 2]], pending)
    /\ UNCHANGED <<uiVars, storageSession, memorySessionKey, dappApprovals, requestId,
                   now, keysGenerated>>
    /\ UNCHANGED <<received, invoked, approvalLog, signatures, broadcasts, lockCompleted>>
    /\ UNCHANGED <<connectionsLoad, restarts, strayResponses, relayed, calc, resetPc, eventListeners, emitted>>

\* The error handleSignMessage / handleSignTransaction / handleSendTransaction
\* return from their catch block
RejectionResponse(method, err) ==
    IF method = "signMessage"
    THEN [error |-> [code |-> 4001, message |-> "User rejected message signing"]]
    ELSE [error |-> [code |-> 4001, message |-> err.message]]

\* handleSignMessage / handleSignTransaction / handleSendTransaction after
\* `await requestApproval(...)` settled
resumeSign(n) ==
    /\ n \in DOMAIN reqs
    /\ Req(n).pc = "settled" /\ Req(n).method # "connect"
    /\ Respond(n, Req(n), IF Has(Req(n).outcome, "reject")
                          THEN RejectionResponse(Req(n).method, Req(n).outcome.reject)
                          ELSE [result |-> Req(n).outcome.resolve.result],
               pendingRequests[Req(n).origin])
    /\ UNCHANGED <<uiVars, storageVars, bgVars, requestId, now, keysGenerated, histVars>>
    /\ UNCHANGED <<restartVars, strayResponses, relayed, calc, resetPc, eventListeners, emitted>>

\* The RESET_EVERYTHING listener
ResetEverything ==
    /\ appOpen
    /\ storageLocal' = EmptyMap
    /\ storageSession' = EmptyMap
    /\ activeSessionCache' = {}
    /\ memorySessionKey' = 0
    /\ dappConnections' = EmptyMap
    /\ dappApprovals' = EmptyMap
    /\ UNCHANGED <<uiVars, pageVars, now, keysGenerated, histVars>>
    /\ lastOp' = [o \in Origins |-> "none"]
    /\ UNCHANGED <<connectionsLoad, restarts, strayResponses, relayed, calc, resetPc, eventListeners, emitted>>

\* The RESET_EVERYTHING listener up to its first await:
\* chrome.storage.local.clear()
resetClearLocal ==
    /\ appOpen
    /\ resetPc = "idle"
    /\ storageLocal' = EmptyMap
    /\ resetPc' = "local cleared"
    /\ UNCHANGED <<uiVars, storageSession, bgVars, pageVars, now, keysGenerated, histVars>>
    /\ UNCHANGED <<restartVars, strayResponses, relayed, calc, eventListeners, emitted>>

\* ... up to its second await: chrome.storage.session.clear()
resetClearSession ==
    /\ resetPc = "local cleared"
    /\ storageSession' = EmptyMap
    /\ resetPc' = "session cleared"
    /\ UNCHANGED <<uiVars, storageLocal, bgVars, pageVars, now, keysGenerated, histVars>>
    /\ UNCHANGED <<restartVars, strayResponses, relayed, calc, eventListeners, emitted>>

\* ... and to its end: the module state is cleared and sendResponse({ success:
\* true }) called
resetReply ==
    /\ resetPc = "session cleared"
    /\ activeSessionCache' = {}
    /\ memorySessionKey' = 0
    /\ dappConnections' = EmptyMap
    /\ dappApprovals' = EmptyMap
    /\ lastOp' = [o \in Origins |-> "none"]
    /\ resetPc' = "replied"
    /\ UNCHANGED <<uiVars, storageVars, pageVars, now, keysGenerated, histVars>>
    /\ UNCHANGED <<connectionsLoad, restarts, strayResponses, relayed, calc,
                   eventListeners, emitted>>

\* ------------------------------------- approval window (DappApprovalScreen)
\* handleResolve(decision): a click on Authorize / Sign / Confirm or on
\* Cancel / Reject sends RESOLVE_APPROVAL, which the background handles
handleResolve(decision) ==
    /\ appOpen /\ isUnlocked /\ dappApprovalId # 0
    /\ request = "found"
    /\ clicks < MaxClicks
    /\ clicks' = clicks + 1
    /\ handleResolveApproval(dappApprovalId, decision, sessionKey)
    /\ UNCHANGED <<appOpen, isUnlocked, sessionKey, dappApprovalId, request, createdWindows,
                   savedIndex, sessionExpiry>>
    /\ UNCHANGED <<storageVars, dappConnections, requestId, pendingRequests, provider,
                   now, keysGenerated, approvalLog, registered, lockCompleted>>
    /\ UNCHANGED <<restartVars, strayResponses, relayed, calc, resetPc, eventListeners, emitted>>

\* ----------------------------------------- restart of the service worker
\* The worker is torn down and started again: module state is initialised,
\* initSession() reads the session storage area, loadConnections() asks
\* chrome.storage.local for the connections, and the handlers that were
\* waiting are gone
BackgroundRestart ==
    /\ restarts < MaxRestarts
    /\ restarts' = restarts + 1
    /\ memorySessionKey' = 0
    /\ activeSessionCache' = IF Has(storageSession, "dapp_wallet_session")
                             THEN {storageSession["dapp_wallet_session"]} ELSE {}
    /\ dappApprovals' = EmptyMap
    /\ dappConnections' = EmptyMap
    /\ connectionsLoad' = {IF Has(storageLocal, "dapp_connections")
                           THEN storageLocal["dapp_connections"] ELSE EmptyMap}
    /\ reqs' = [n \in DOMAIN reqs |->
                   IF Req(n).pc \in {"awaiting", "settled"}
                   THEN [Req(n) EXCEPT !.pc = "lost"] ELSE Req(n)]
    /\ lastOp' = [o \in Origins |-> "none"]
    /\ UNCHANGED <<uiVars, storageVars, requestId, pendingRequests, provider, now,
                   keysGenerated, histVars, strayResponses, relayed, calc, resetPc, eventListeners, emitted>>

\* loadConnections() after its await: the entries read are put into the map
loadConnections ==
    /\ connectionsLoad # {}
    /\ LET data == The(connectionsLoad)
       IN dappConnections' = [o \in DOMAIN data \cup DOMAIN dappConnections |->
                                 IF o \in DOMAIN data THEN data[o] ELSE dappConnections[o]]
    /\ connectionsLoad' = {}
    /\ UNCHANGED <<uiVars, storageVars, activeSessionCache, memorySessionKey, dappApprovals,
                   pageVars, now, keysGenerated, histVars, restarts, lastOp, strayResponses, relayed, calc, resetPc, eventListeners, emitted>>

\* The relay's catch block: chrome.runtime.sendMessage failed because the
\* worker that was to answer is gone
relayError(n) ==
    /\ n \in DOMAIN reqs
    /\ Req(n).pc = "lost"
    /\ Post(n, Req(n), OctraResponse({}), pendingRequests[Req(n).origin])
    /\ UNCHANGED <<uiVars, storageVars, bgVars, requestId, now, keysGenerated, histVars,
                   restartVars, strayResponses, relayed, calc, resetPc, eventListeners, emitted>>

\* ------------------------------------------------------------- Next
Next ==
    \/ OpenPopup
    \/ \E id \in createdWindows : OpenApprovalWindow(id)
    \/ CloseWindow
    \/ handleUnlock
    \/ syncSessionToBackground
    \/ handleLock
    \/ \E a \in Addresses : handleSwitchWallet(a)
    \/ \E decision \in {"approved", "rejected"} : handleResolve(decision)
    \/ ResetEverything
    \/ \E o \in Origins : connect(o)
    \/ \E o \in Origins : disconnect(o)
    \/ \E o \in Origins, method \in Methods : sign(o, method)
    \/ \E n \in 1..MaxRequests : resumeConnect(n)
    \/ \E n \in 1..MaxRequests : resumeSign(n)

Spec == Init /\ [][Next]_vars

\* The program with the provider's getAccounts and getPublicKey
NextQuery ==
    \/ Next
    \/ \E o \in Origins, method \in {"getAccounts", "getPublicKey"} : query(o, method)

SpecQuery == Init /\ [][NextQuery]_vars

\* The program with the wallet's list of connected sites
NextPopup ==
    \/ Next
    \/ \E o \in Origins : disconnectOrigin(o)

SpecPopup == Init /\ [][NextPopup]_vars

\* The program with pages that pass objects to provider.signMessage
NextPayload ==
    \/ Next
    \/ \E o \in Origins, messageOrPayload \in MessagePayloads :
          signMessage(o, messageOrPayload)

SpecPayload == Init /\ [][NextPayload]_vars

\* The relay's side: window messages of other scripts next to the provider's
\* connect and disconnect, with the approval window that answers a connect
NextRelay ==
    \/ \E id \in createdWindows : OpenApprovalWindow(id)
    \/ CloseWindow
    \/ handleUnlock
    \/ \E decision \in {"approved", "rejected"} : handleResolve(decision)
    \/ \E o \in Origins : connect(o)
    \/ \E o \in Origins : disconnect(o)
    \/ \E n \in 1..MaxRequests : resumeConnect(n)
    \/ \E o \in Origins, event \in WindowMessages : relayMessage(o, event)

SpecRelay == Init /\ [][NextRelay]_vars

\* The clock moves and the providers' timers run, while one approval window
\* at a time is opened, unlocked and answered
NextTimed ==
    \/ \E id \in createdWindows : OpenApprovalWindow(id)
    \/ CloseWindow
    \/ handleUnlock
    \/ \E decision \in {"approved", "rejected"} : handleResolve(decision)
    \/ ResetEverything
    \/ \E o \in Origins : connect(o)
    \/ \E o \in Origins : disconnect(o)
    \/ \E o \in Origins, method \in Methods : sign(o, method)
    \/ \E n \in 1..MaxRequests : resumeConnect(n)
    \/ \E n \in 1..MaxRequests : resumeSign(n)
    \/ \E n \in 1..MaxRequests : RequestTimeoutFires(n)
    \/ Tick

SpecTimed == Init /\ [][NextTimed]_vars

\* The program with restarts of the service worker
NextRestart ==
    \/ Next
    \/ BackgroundRestart
    \/ loadConnections
    \/ \E n \in 1..MaxRequests : relayError(n)

SpecRestart == Init /\ [][NextRestart]_vars

\* A reset handled step by step next to a connect and its approval window
NextReset ==
    \/ \E id \in createdWindows : OpenApprovalWindow(id)
    \/ CloseWindow
    \/ handleUnlock
    \/ \E decision \in {"approved", "rejected"} : handleResolve(decision)
    \/ \E o \in Origins : connect(o)
    \/ \E n \in 1..MaxRequests : resumeConnect(n)
    \/ resetClearLocal
    \/ resetClearSession
    \/ resetReply

SpecReset == Init /\ [][NextReset]_vars

\* The page's side: connect and disconnect calls (every method goes through
\* the same sendRequest and listener), their timers, the approval window that
\* answers a connect, and every OCTRA_RESPONSE the listener can receive
NextPage ==
    \/ \E id \in createdWindows : OpenApprovalWindow(id)
    \/ handleUnlock
    \/ \E decision \in {"approved", "rejected"} : handleResolve(decision)
    \/ \E o \in Origins : connect(o)
    \/ \E o \in Origins : disconnect(o)
    \/ \E n \in 1..MaxRequests : resumeConnect(n)
    \/ \E n \in 1..MaxRequests : RequestTimeoutFires(n)
    \/ Tick
    \/ \E o \in Origins, id \in 1..MaxRequests, response \in StrayMessages :
           ResponseListener(o, id, response)

SpecPage == Init /\ [][NextPage]_vars

TypeOK ==
    /\ isUnlocked \in BOOLEAN
    /\ memorySessionKey \in 0..MaxSessionKeys
    /\ Len(reqs) <= MaxRequests

\* ------------------------------------------------------------ properties
SignTypes == {"signMessage", "signTransaction", "sendTransaction"}

\* Request n returned a signature to its page
ReturnedSignature(n) ==
    /\ Req(n).method \in SignTypes
    /\ Req(n).pc = "done"
    /\ Has(Req(n).response, "result")

\* Approval id of request n got the decision 'approved' while it was pending
ApprovedFor(id, n, types) ==
    /\ id \in DOMAIN approvalLog
    /\ approvalLog[id].req = n
    /\ approvalLog[id].type \in types
    /\ "approved" \in received[id]

\* C1: a sign request returns a signature, a signature is made and a
\* transaction is broadcast only after 'approved' arrived for the approval
\* that same request created; a Connection of an origin is registered, and
\* is in dappConnections, only after 'approved' on a connect approval of that
\* origin.
C1_ApprovalGatesEffects ==
    /\ \A n \in DOMAIN reqs :
          ReturnedSignature(n) => ApprovedFor(Req(n).approvalId, n, {Req(n).method})
    /\ \A s \in signatures :
          ApprovedFor(s.approvalId, approvalLog[s.approvalId].req, {s.type})
    /\ \A b \in broadcasts :
          ApprovedFor(b.approvalId, approvalLog[b.approvalId].req, {"sendTransaction"})
    /\ \A c \in registered :
          /\ ApprovedFor(c.approvalId, approvalLog[c.approvalId].req, {"connect"})
          /\ approvalLog[c.approvalId].origin = c.origin
    /\ \A o \in DOMAIN dappConnections : \E c \in registered : c.origin = o

\* C1 witness: a connection was registered and a sendTransaction request got
\* its signed, broadcast transaction back
C1_Witness ==
    /\ registered # {}
    /\ broadcasts # {}
    /\ \E n \in DOMAIN reqs : ReturnedSignature(n) /\ Req(n).method = "sendTransaction"

\* Fields the persisted session record may have
SessionRecordFields == {"address", "publicKey", "encryptedPrivateKey", "network", "timestamp"}

\* Names under which the code keeps a plaintext private key or a SessionKey
SecretFields == {"privateKey", "privateKeyB64", "sessionKey", "memorySessionKey"}

\* C2: no storage area holds a plaintext private key or a SessionKey, and the
\* persisted session record has only the fields address, publicKey,
\* encryptedPrivateKey, network and timestamp.
C2_NoPlaintextInStorage ==
    /\ DOMAIN storageSession \cap SecretFields = {}
    /\ DOMAIN storageLocal \cap SecretFields = {}
    /\ Has(storageSession, "dapp_wallet_session") =>
          /\ DOMAIN storageSession["dapp_wallet_session"] \cap SecretFields = {}
          /\ DOMAIN storageSession["dapp_wallet_session"] \subseteq SessionRecordFields

\* C3: once handleLock has run, and until the next unlock, the persisted
\* session is gone, the background holds no SessionKey and no cached session,
\* and getWalletFromStorage reports locked.
C3_LockedAfterLock ==
    lockCompleted =>
        /\ ~Has(storageSession, "dapp_wallet_session")
        /\ memorySessionKey = 0
        /\ activeSessionCache = {}
        /\ ~HasKey(getWalletFromStorage)

\* A session with encryptedPrivateKey and an in-memory SessionKey are both
\* present, and that key opens that ciphertext
BothHalvesConsistent ==
    LET S == SessionFor(activeSessionCache, storageSession)
    IN /\ S # {}
       /\ Has(The(S), "encryptedPrivateKey")
       /\ memorySessionKey # 0
       /\ decryptSession(The(S).encryptedPrivateKey, memorySessionKey) # {}

\* C4: getWalletFromStorage returns a wallet with a usable private key if and
\* only if the encrypted session and the SessionKey are both present and
\* consistent; otherwise it reports locked.
C4_UsableKeyIffBothHalves ==
    /\ HasKey(getWalletFromStorage) <=> BothHalvesConsistent
    /\ ~BothHalvesConsistent => getWalletFromStorage = {}

\* C5: every signature was made with the key and address of the wallet that
\* getWalletFromStorage yields at decision time, never with those of the
\* wallet stored in the approval when it was created.
C5_SignsWithCurrentWallet ==
    \A s \in signatures : s.signedWith = s.current /\ s.address = s.currentAddress

\* Nothing was registered, signed or broadcast for approval id
NoEffectsFor(id) ==
    /\ \A c \in registered : c.approvalId # id
    /\ \A s \in signatures : s.approvalId # id
    /\ \A b \in broadcasts : b.approvalId # id

\* The provider call of request n was rejected with `code`
CallRejectedWith(n, code) ==
    /\ Req(n).call = "rejected"
    /\ Req(n).settlement.error.code = code

\* C6 as stated: once 'rejected' arrived for a pending approval and the
\* handler has answered, the originating provider call is rejected with code
\* 4001, and nothing is registered, signed or broadcast for that approval.
C6_RejectionRejectsCall ==
    \A id \in DOMAIN received :
        "rejected" \in received[id] =>
            LET n == approvalLog[id].req
            IN /\ NoEffectsFor(id)
               /\ Req(n).pc = "done" => CallRejectedWith(n, 4001)

\* C6, amended: once 'rejected' arrived for a pending approval and the
\* handler has answered, the broker's answer carries code 4001 and the
\* originating provider call is rejected with it if it was still pending,
\* and stays rejected with the timeout error if its 300 s timer had already
\* run; nothing is registered, signed or broadcast for that approval.
C6_RejectionRejectsPendingCall ==
    \A id \in DOMAIN received :
        "rejected" \in received[id] =>
            LET n == approvalLog[id].req
            IN /\ NoEffectsFor(id)
               /\ Req(n).pc = "done" =>
                     /\ Req(n).response.error.code = 4001
                     /\ \/ CallRejectedWith(n, 4001)
                        \/ Req(n).timer = "fired" /\ CallRejectedWith(n, 4100)

\* C6 witness: 'rejected' arrived for a sign approval, the handler answered
\* and the provider call, still pending then, was rejected with 4001
C6_Witness ==
    \E id \in DOMAIN received :
        /\ "rejected" \in received[id]
        /\ approvalLog[id].type \in SignTypes
        /\ Req(approvalLog[id].req).pc = "done"
        /\ Req(approvalLog[id].req).timer = "armed"
        /\ CallRejectedWith(approvalLog[id].req, 4001)

\* C7: the continuation of every approval is invoked at most once, exactly
\* once when the approval has left the map, and the approval is out of the
\* map once its continuation was invoked.
C7_ContinuationExactlyOnce ==
    \A id \in DOMAIN approvalLog :
        /\ invoked[id] <= 1
        /\ ~Has(dappApprovals, id) => invoked[id] = 1
        /\ invoked[id] >= 1 => ~Has(dappApprovals, id)

\* C8: a RESOLVE_APPROVAL for an id that is not in the approval map settles
\* no continuation and leaves the approval map, the connections, the session
\* cache and the in-memory SessionKey as they were.
C8_UnknownIdIsNoOp ==
    [][(clicks' = clicks + 1 /\ ~Has(dappApprovals, dappApprovalId))
          => UNCHANGED <<bgVars, reqs, invoked>>]_vars

\* C9: no approval older than 5 minutes is in the approval map.
C9_StaleApprovalsSwept ==
    \A id \in DOMAIN dappApprovals : now - dappApprovals[id].timestamp <= ApprovalExpiry

\* C10: no id stays in a provider's correlation table for more than 300 s;
\* a call that got no response in that time is rejected with the timeout
\* error when its timer runs, and its id leaves the table.
C10_RequestsTimeOut ==
    \A n \in DOMAIN reqs :
        LET r == Req(n)
            inTable == r.id \in pendingRequests[r.origin]
        IN /\ inTable => now <= r.sentAt + RequestTimeout
           /\ inTable <=> r.call = "pending"
           /\ (r.timer = "fired" /\ r.pc # "done") =>
                 /\ r.call = "rejected"
                 /\ r.settlement = [error |-> [code |-> 4100, message |-> "Request timeout"]]

\* C10 witness: the broker never answered (the approval is still in the
\* map), the timer ran, the call is rejected with the timeout error and its
\* id has left the table
C10_Witness ==
    \E n \in DOMAIN reqs :
        /\ Has(dappApprovals, Req(n).approvalId)
        /\ Req(n).timer = "fired"
        /\ CallRejectedWith(n, 4100)
        /\ Req(n).id \notin pendingRequests[Req(n).origin]
        /\ now > Req(n).sentAt + RequestTimeout

\* C11: when the decision on a request's approval arrives after the provider
\* call has timed out, nothing is signed, broadcast or registered for it.
C11_LateApprovalIsNoOp ==
    \A n \in DOMAIN reqs :
        (Req(n).late /\ "approved" \in received[Req(n).approvalId])
            => NoEffectsFor(Req(n).approvalId)

\* C12: after a restart of the service worker, while no SessionKey has been
\* delivered to it, getWalletFromStorage reports locked, so that sign
\* requests are answered as locked and no approval yields a signature.
C12_LockedAfterRestart ==
    (restarts > 0 /\ memorySessionKey = 0) => ~HasKey(getWalletFromStorage)

\* C13: no broker state holds a plaintext private key between operations:
\* not the wallet stored in a pending approval, not the session cache; and
\* every signature is made with the key getWalletFromStorage yields when it
\* is made.
C13_NoPlaintextInBrokerState ==
    /\ \A id \in DOMAIN dappApprovals : ~HasKey(dappApprovals[id].wallet)
    /\ ~HasKey(activeSessionCache)
    /\ \A s \in signatures : s.signedWith = s.current

\* Keys that do not open the ciphertext of session S
WrongKeys(S) ==
    {k \in 1..MaxSessionKeys :
        /\ S # {}
        /\ Has(The(S), "encryptedPrivateKey")
        /\ decryptSession(The(S).encryptedPrivateKey, k) = {}}

C15_ConnectionFollowsLastOp ==
    \A o \in Origins :
        /\ lastOp[o] = "added" => IsConnected(o)
        /\ lastOp[o] = "removed" => ~IsConnected(o)

\* C16: no connect approval is created for an origin whose Connection is in
\* chrome.storage.local.
C16_PersistedConnectionNeedsNoApproval ==
    \A id \in DOMAIN approvalLog :
        approvalLog[id].type = "connect" => ~approvalLog[id].persisted

\* C17: a signTransaction or sendTransaction request without a destination
\* gets its error from the broker without a PendingApproval or an approval
\* window being created for it.
C17_InvalidRequestOpensNoApproval ==
    \A n \in DOMAIN reqs :
        Req(n).method \in {"signTransaction", "sendTransaction"}
            /\ ~Has(Req(n).params, "to")
        => Req(n).approvalId = 0

\* An error object with a code and a message
Structured(response) ==
    Has(response, "error") =>
        /\ DOMAIN response.error = {"code", "message"}
        /\ response.error.code \in Nat

\* C18: every error the broker returns for a request, and every error a
\* provider call is rejected with, is an object {code, message} with a
\* numeric code.
C18_ErrorsAreStructured ==
    \A n \in DOMAIN reqs :
        Structured(Req(n).response) /\ Structured(Req(n).settlement)

\* The code of the error in `response`, 0 when it carries none
CodeOf(response) ==
    IF Has(response, "error") /\ Has(response.error, "code")
    THEN response.error.code ELSE 0

\* C19: a call is rejected with 4001 only when the user's decision was
\* 'rejected', an approved action that failed is reported to the page as 5000
\* with the failure's message, a timed-out call is rejected with 4900, and
\* 4100 means not connected or locked.
C19_CodesFollowTaxonomy ==
    \A n \in DOMAIN reqs :
        LET r == Req(n)
            failed == Has(r.outcome, "reject") /\ r.outcome.reject.code = 5000
        IN /\ CodeOf(r.response) = 4001 =>
                 Has(r.outcome, "reject") /\ r.outcome.reject.code = 4001
           /\ failed /\ r.pc = "done" =>
                 r.response = [error |-> r.outcome.reject]
           /\ r.timer = "fired" /\ r.call = "rejected" /\ r.response = EmptyMap =>
                 CodeOf(r.settlement) = 4900
           /\ CodeOf(r.settlement) = 4100 =>
                 r.settlement.error.message \in
                     {"Not connected", "Wallet not found", "Wallet locked"}

\* C20: the ids of a page strictly increase; a call is settled at most once,
\* by the response carrying its id or by its timer, whichever comes first, and
\* its entry is in the table exactly while it is unsettled; responses for ids
\* without an entry leave every call as it was.
C20_EachCallSettledOnce ==
    /\ \A o \in Origins : \A id \in pendingRequests[o] : id <= requestId[o]
    /\ \A n \in DOMAIN reqs :
        LET r == Req(n)
        IN /\ r.settles <= 1
           /\ (r.settles = 1) = (r.call # "pending")
           /\ (r.call = "pending") = (r.id \in pendingRequests[r.origin])
           /\ r.id <= requestId[r.origin]
           /\ \A m \in DOMAIN reqs :
                 m > n /\ Req(m).origin = r.origin => Req(m).id > r.id

\* A later call of a page was settled while an earlier one is pending, and a
\* second response for the settled call was ignored
C20_Witness ==
    /\ "answered" \in strayResponses.ignored
    /\ \E n, m \in DOMAIN reqs :
          /\ n < m /\ Req(n).origin = Req(m).origin
          /\ Req(n).call = "pending" /\ Req(m).settles = 1

\* Call n of page o was resolved in this step
ResolvedNow(n, o) ==
    /\ n \in DOMAIN reqs'
    /\ reqs'[n].origin = o
    /\ reqs'[n].call = "resolved"
    /\ n \in DOMAIN reqs => Req(n).call = "pending"

\* C21: the provider's isConnected, selectedAddress, chainId and networkId
\* change only in a step in which a connect call of that page resolves with
\* at least one account or a disconnect call of that page resolves.
C21_ProviderChangesOnlyOnSuccess ==
    [][\A o \in Origins :
          provider'[o] # provider[o] =>
              \E n \in DOMAIN reqs' :
                  /\ ResolvedNow(n, o)
                  /\ \/ reqs'[n].method = "disconnect"
                     \/ /\ reqs'[n].method = "connect"
                        /\ Len(reqs'[n].settlement.result.accounts) > 0]_vars

\* One page is connected after its connect resolved; the connect of another
\* timed out and left its provider unconnected
C21_Witness ==
    \E n, m \in DOMAIN reqs :
        /\ Req(n).method = "connect" /\ Req(n).call = "rejected" /\ Req(n).timer = "fired"
        /\ ~provider[Req(n).origin].isConnected
        /\ Req(m).method = "connect" /\ Req(m).call = "resolved"
        /\ provider[Req(m).origin].isConnected

\* The call a page makes in this step, {} when it makes none
NewCall == IF Len(reqs') = Len(reqs) + 1 THEN {reqs'[Len(reqs')]} ELSE {}

\* C22: on a provider that is not connected getAccounts resolves to the empty
\* list, getPublicKey rejects with {code: 4100, message: 'Not connected'} and
\* disconnect resolves; each is settled by the step that makes the call.
C22_UnconnectedProviderAnswers ==
    [][\A r \in NewCall :
          ~provider[r.origin].isConnected =>
              /\ r.method = "getAccounts" =>
                    r.call = "resolved" /\ r.settlement = [result |-> <<>>]
              /\ r.method = "getPublicKey" =>
                    /\ r.call = "rejected"
                    /\ r.settlement = [error |-> [code |-> 4100, message |-> "Not connected"]]
              /\ r.method = "disconnect" =>
                    r.call = "resolved" /\ ~Has(r.settlement, "error")]_vars

\* An unconnected page called getPublicKey and getAccounts
C22_Witness ==
    \E n, m \in DOMAIN reqs :
        /\ Req(n).method = "getPublicKey" /\ Req(n).id = 0 /\ Req(n).call = "rejected"
        /\ Req(m).method = "getAccounts" /\ Req(m).id = 0 /\ Req(m).call = "resolved"
        /\ Req(n).origin = Req(m).origin

\* C23: the relay sends a DAPP_REQUEST for a window message exactly when the
\* message came from the page's own window and has type OCTRA_REQUEST, and
\* the origin, title and favicon of the DAPP_REQUEST are those of the page,
\* whatever the message says.
C23_RelayForwardsOwnRequestsOnly ==
    \A e \in relayed.last :
        /\ (e.sent # {}) = (e.event.source = "window" /\ e.event.type = "OCTRA_REQUEST")
        /\ \A msg \in e.sent :
              msg.origin = e.page /\ msg.title = e.page /\ msg.favicon = e.page

\* The relay forwarded a request whose origin field names another page, and
\* the broker holds the approval under the page's own origin
C23_Witness ==
    \E e \in relayed.last :
        /\ e.sent # {} /\ e.event.origin # e.page /\ e.event.method = "connect"
        /\ \E id \in DOMAIN dappApprovals : dappApprovals[id].origin = e.page
        /\ \A id \in DOMAIN dappApprovals : dappApprovals[id].origin # e.event.origin

\* connect() called on a locked wallet for an unconnected origin creates a
\* connect PendingApproval and asks for its window
LockedConnectAsksApproval ==
    \A r \in NewCall :
        r.method = "connect" /\ UILocked /\ ~IsConnected(r.origin) =>
            /\ r.pc = "awaiting"
            /\ Has(dappApprovals', r.approvalId)
            /\ dappApprovals'[r.approvalId].type = "connect"
            /\ dappApprovals'[r.approvalId].origin = r.origin
            /\ r.approvalId \in createdWindows'

\* An approval window opened on a locked wallet shows the lock screen
LockedWindowShowsLockScreen ==
    ~appOpen /\ appOpen' /\ dappApprovalId' # 0 /\ UILocked => ~isUnlocked'

\* handleConnect continues in this step for call n, which the user authorized
AuthorizedConnect(n) ==
    /\ Req(n).method = "connect"
    /\ Req(n).pc = "settled" /\ reqs'[n].pc = "done"
    /\ Has(Req(n).outcome, "resolve")

\* The call resolved with one account, its provider is connected and the
\* broker holds a connected Connection of the origin
ConnectedWithOneAccount(n) ==
    /\ Has(reqs'[n].response, "result")
    /\ Len(reqs'[n].response.result.accounts) = 1
    /\ reqs'[n].call = "resolved"
    /\ reqs'[n].settlement = reqs'[n].response
    /\ provider'[Req(n).origin].isConnected
    /\ Has(dappConnections', Req(n).origin)
    /\ dappConnections'[Req(n).origin].connected

\* C24 as stated: connect() on a locked wallet creates a connect approval
\* whose window starts on the lock screen, and once the user has unlocked and
\* authorized, the call resolves with one account, the provider is connected
\* and the broker holds the Connection.
C24_LockedConnectCompletes ==
    [][/\ LockedConnectAsksApproval
       /\ LockedWindowShowsLockScreen
       /\ \A n \in DOMAIN reqs :
             AuthorizedConnect(n) => ConnectedWithOneAccount(n)]_vars

\* C24: as above, where the call completes as described if it is still in
\* the correlation table (its 300 s timer has not run) and the session the
\* unlock stored has not been wiped when handleConnect continues.
C24_LockedConnectCompletesInTime ==
    [][/\ LockedConnectAsksApproval
       /\ LockedWindowShowsLockScreen
       /\ \A n \in DOMAIN reqs :
             /\ AuthorizedConnect(n)
             /\ Req(n).id \in pendingRequests[Req(n).origin]
             /\ Has(storageSession, "dapp_wallet_session")
             => ConnectedWithOneAccount(n)]_vars

\* A connect completed after the first unlock ever, which the user did in
\* the approval window of that connect: the wallet was locked when the call
\* was made
C24_Witness ==
    \E n \in DOMAIN reqs :
        /\ Req(n).method = "connect" /\ Req(n).pc = "done"
        /\ Req(n).approvalId # 0 /\ dappApprovalId = Req(n).approvalId
        /\ keysGenerated = 1 /\ sessionKey = 1
        /\ Req(n).call = "resolved"
        /\ provider[Req(n).origin].isConnected
        /\ IsConnected(Req(n).origin)

\* C25: the envelope an approved signMessage returns to origin O has
\* payload.domain = O, and its signature verifies against the publicKey and
\* the address it carries.
C25_EnvelopeVerifies ==
    \A n \in DOMAIN reqs :
        Req(n).method = "signMessage" /\ Has(Req(n).response, "result") =>
            LET envelope == Req(n).response.result
            IN /\ envelope.payload.domain = Req(n).origin
               /\ naclVerify(createSigningMessage(PayloadEntries(envelope.payload)),
                             envelope.signature, envelope.publicKey)
               /\ AddressOf(envelope.publicKey) = envelope.address

\* ------------------------------------------- inpage: the event emitter
\* The functions a page registers for an event
Callbacks == {"f", "g", "h"}

\* A listener of the event's array: the page's function cb itself, or the
\* wrapper that once() made around it
Registered(cb) == \E i \in DOMAIN eventListeners : eventListeners[i].cb = cb

\* listeners.splice(index, 1)
splice(listeners, index) ==
    SubSeq(listeners, 1, index - 1) \o SubSeq(listeners, index + 1, Len(listeners))

\* listeners.indexOf(callback), 0 when it is not there
indexOf(listeners, callback) ==
    IF \E i \in DOMAIN listeners : listeners[i] = callback
    THEN CHOOSE i \in DOMAIN listeners :
             listeners[i] = callback /\ \A j \in 1..(i - 1) : listeners[j] # callback
    ELSE 0

\* on(event, callback): a page registers a function it has not registered
on(cb) ==
    /\ Len(eventListeners) < MaxListeners /\ ~Registered(cb)
    /\ eventListeners' = Append(eventListeners, [cb |-> cb, once |-> FALSE])
    /\ UNCHANGED <<uiVars, storageVars, bgVars, pageVars, now, keysGenerated, histVars>>
    /\ UNCHANGED <<restartVars, strayResponses, relayed, calc, resetPc, emitted>>

\* once(event, callback): on(event, wrapped)
once(cb) ==
    /\ Len(eventListeners) < MaxListeners /\ ~Registered(cb)
    /\ eventListeners' = Append(eventListeners, [cb |-> cb, once |-> TRUE])
    /\ UNCHANGED <<uiVars, storageVars, bgVars, pageVars, now, keysGenerated, histVars>>
    /\ UNCHANGED <<restartVars, strayResponses, relayed, calc, resetPc, emitted>>

\* off(event, callback) with a function the page registered by on()
off(cb) ==
    /\ LET index == indexOf(eventListeners, [cb |-> cb, once |-> FALSE])
       IN eventListeners' = IF index > 0 THEN splice(eventListeners, index)
                           ELSE eventListeners
    /\ UNCHANGED <<uiVars, storageVars, bgVars, pageVars, now, keysGenerated, histVars>>
    /\ UNCHANGED <<restartVars, strayResponses, relayed, calc, resetPc, emitted>>

\* listeners.forEach(cb => cb(data)) from index k on: forEach visits the
\* indices below the length the array had at the start, and at each index the
\* element the array holds by then; a wrapper of once() calls off on itself
\* and then the page's function
RECURSIVE forEach(_, _, _, _)
forEach(listeners, k, len, calls) ==
    IF k > len THEN [listeners |-> listeners, calls |-> calls]
    ELSE IF k > Len(listeners) THEN forEach(listeners, k + 1, len, calls)
    ELSE LET listener == listeners[k]
         IN forEach(IF listener.once THEN splice(listeners, indexOf(listeners, listener))
                    ELSE listeners,
                    k + 1, len, Append(calls, listener.cb))

\* emit(event, data)
emit ==
    /\ LET done == forEach(eventListeners, 1, Len(eventListeners), <<>>)
       IN /\ eventListeners' = done.listeners
          /\ emitted' = {[at |-> eventListeners, calls |-> done.calls,
                          after |-> done.listeners]}
    /\ UNCHANGED <<uiVars, storageVars, bgVars, pageVars, now, keysGenerated, histVars>>
    /\ UNCHANGED <<restartVars, strayResponses, relayed, calc, resetPc>>

NextEvents ==
    \/ \E cb \in Callbacks : on(cb)
    \/ \E cb \in Callbacks : once(cb)
    \/ \E cb \in Callbacks : off(cb)
    \/ emit

SpecEvents == Init /\ [][NextEvents]_vars

\* ------------------------------------- helper functions on given arguments
programVars == <<uiVars, storageVars, bgVars, pageVars, now, keysGenerated, histVars,
                 restartVars, strayResponses, relayed, resetPc, eventListeners, emitted>>

\* The objects with or without a field of one of the values
Optional(field, values) == {EmptyMap} \cup {[k \in {field} |-> v] : v \in values}

\* txParams a page may pass to signTransaction and sendTransaction
TxInputs ==
    { [to |-> "octZ", amount |-> 10] @@ n @@ m @@ f :
          n \in Optional("nonce", {0, 5}),
          m \in Optional("message", {"memo"}),
          f \in Optional("fee", {1}) }

\* Two requests to sign a transaction with a wallet
InitTransaction ==
    /\ InitProgram
    /\ \E p \in TxInputs, q \in TxInputs, w \in Wallets :
          calc = [fn |-> "transaction", stage |-> "input", given |-> p, txParams |-> p,
                  otherGiven |-> q, other |-> q, wallet |-> w, lookup |-> -2, ensuredAt |-> 0,
                  shown |-> {}, tx |-> {}, otherTx |-> {}]

\* ensureNonce(txParams, wallet.address) for both requests, the balance
\* lookup answering the same (lookup = -1: it failed)
applyEnsureNonce ==
    /\ calc.fn = "transaction" /\ calc.stage = "input"
    /\ \E lookup \in NetNonces \cup {0, -1} :
          calc' = [calc EXCEPT !.stage = "ensured",
                               !.txParams = ensureNonce(@, lookup),
                               !.other = ensureNonce(@, lookup),
                               !.lookup = lookup,
                               !.ensuredAt = now]
    /\ UNCHANGED programVars

\* (n / 1000000).toFixed(6) of an integer n
ToFixed6(n) ==
    LET frac == ToString(n % 1000000)
    IN ToString(n \div 1000000) \o "." \o SubSeq("000000", 1, 6 - Len(frac)) \o frac

\* {V?.slice(0, 12)}...{V?.slice(-8)}, V = {} when the field is undefined
Shorten(V) ==
    IF V = {} THEN "..."
    ELSE LET str == The(V)
         IN SubSeq(str, 1, IF Len(str) < 12 THEN Len(str) ELSE 12) \o "..."
               \o SubSeq(str, IF Len(str) > 8 THEN Len(str) - 7 ELSE 1, Len(str))

\* TransactionApproval({request}): the amount and the destination it renders,
\* request.transaction being the approval's params
TransactionApproval(props) ==
    LET tx == props.request.transaction
    IN [amountOct |-> IF Has(tx, "amount") /\ tx.amount # 0 THEN ToFixed6(tx.amount)
                      ELSE "0",
        to |-> Shorten(IF Has(tx, "to_") THEN {tx.to_} ELSE {})]

\* The approval window renders the first request, whose params are the
\* txParams after ensureNonce
applyTransactionApproval ==
    /\ calc.fn = "transaction" /\ calc.stage = "ensured"
    /\ calc' = [calc EXCEPT !.stage = "shown",
                            !.shown = {TransactionApproval(
                                             [request |-> [transaction |-> calc.txParams]])}]
    /\ UNCHANGED programVars

\* signTransactionOnly(txParams, wallet) for both requests
applySignTransactionOnly ==
    /\ calc.fn = "transaction" /\ calc.stage = "shown"
    /\ calc' = [calc EXCEPT !.stage = "signed",
                            !.tx = {signTransactionOnly(calc.txParams, calc.wallet)},
                            !.otherTx = {signTransactionOnly(calc.other, calc.wallet)}]
    /\ UNCHANGED programVars

\* Keys and values of the payload objects a page may pass to signMessage
PayloadKeys == {"message", "domain", "timestamp"}

FieldValues(key) ==
    CASE key = "message" -> {{}, {"hi"}}
      [] key = "timestamp" -> {{}, {1}}
      [] OTHER -> {{"https://d.app"}}

PayloadFields == UNION {{<<key, V>> : V \in FieldValues(key)} : key \in PayloadKeys}

\* The payload objects: each key at most once, in every insertion order
PayloadInputs ==
    UNION {{P \in [1..n -> PayloadFields] :
               \A i \in 1..n, j \in 1..n : P[i][1] = P[j][1] => i = j}
           : n \in 0..Cardinality(PayloadKeys)}

\* Two payload objects to serialize and to sign with a key
InitSerialize ==
    /\ InitProgram
    /\ \E P \in PayloadInputs, Q \in PayloadInputs :
          calc = [fn |-> "serialize", stage |-> "input", payload |-> P, other |-> Q,
                  serialized |-> "", otherSerialized |-> "",
                  signature |-> {}, otherSignature |-> {}]

\* serializePayload(payload) and signMessageWithKey(payload, key) for both
applySerializePayload ==
    /\ calc.fn = "serialize" /\ calc.stage = "input"
    /\ \E w \in Wallets :
          calc' = [calc EXCEPT
                      !.stage = "done",
                      !.serialized = serializePayload(calc.payload),
                      !.otherSerialized = serializePayload(calc.other),
                      !.signature = {signMessageWithKey(calc.payload, KeyOf(w))},
                      !.otherSignature = {signMessageWithKey(calc.other, KeyOf(w))}]
    /\ UNCHANGED programVars

\* Payloads of the envelopes given to the verifier: of this or another
\* version, with or without an expiry time
VerifyPayloads ==
    { << <<"version", {v}>>, <<"domain", {"https://d.app"}>>, <<"expiresAt", E>> >> :
          v \in {"OSM-1", "OSM-0"}, E \in {{}, {3}} }

\* The envelopes: any field may be undefined, the signature is one some
\* wallet made over some payload
VerifyInputs ==
    [payload : {{}} \cup {{P} : P \in VerifyPayloads},
     signature : {{}} \cup {{signMessageWithKey(P, KeyOf(w))} :
                                P \in VerifyPayloads, w \in Wallets},
     publicKey : {{}} \cup {{w.publicKeyB64} : w \in Wallets},
     address : Addresses]

VerifyOptions ==
    [expectedDomain : {{}} \cup {{o} : o \in Origins}, checkExpiry : BOOLEAN]

\* An envelope to verify under some options
InitVerify ==
    /\ InitProgram
    /\ \E response \in VerifyInputs, options \in VerifyOptions :
          calc = [fn |-> "verify", stage |-> "input", response |-> response,
                  options |-> options, at |-> 0, report |-> {}]

\* verifyOSM1Signature(response, nacl, options), called at time `now`
applyVerifyOSM1Signature ==
    /\ calc.fn = "verify" /\ calc.stage = "input"
    /\ calc' = [calc EXCEPT !.stage = "done", !.at = now,
                            !.report = {verifyOSM1Signature(calc.response, calc.options)}]
    /\ UNCHANGED programVars

\* ------------------------------------------------ utils/osm1: amounts
\* An amount is digits * 10^exp, digits without trailing zeros
RECURSIVE Pow10(_)
Pow10(n) == IF n = 0 THEN 1 ELSE 10 * Pow10(n - 1)

Zeros(n) == SubSeq("0000000000000000000000", 1, n)

\* The amount written as a plain decimal string, as a page passes it
PlainDecimal(amount) ==
    LET s == ToString(amount.digits)
        k == Len(s)
        n == k + amount.exp
    IN IF amount.digits = 0 THEN "0"
       ELSE IF amount.exp >= 0 THEN s \o Zeros(amount.exp)
       ELSE IF n > 0 THEN SubSeq(s, 1, n) \o "." \o SubSeq(s, n + 1, k)
       ELSE "0." \o Zeros(-n) \o s

\* Number.prototype.toString() of the amount held as a number: plain
\* decimal from 1e-6 up to 1e21, exponent notation outside
NumberToString(amount) ==
    LET s == ToString(amount.digits)
        k == Len(s)
        n == k + amount.exp
    IN IF amount.digits = 0 \/ (-6 < n /\ n <= 21) THEN PlainDecimal(amount)
       ELSE (IF k = 1 THEN s ELSE SubSeq(s, 1, 1) \o "." \o SubSeq(s, 2, k))
                \o "e" \o (IF n - 1 < 0 THEN "-" \o ToString(1 - n)
                            ELSE "+" \o ToString(n - 1))

\* str.split('.'): the first two parts, {} when there is no second part
SplitAtDots(str) ==
    LET dots == {i \in 1..Len(str) : SubSeq(str, i, i) = "."}
        first == IF dots = {} THEN Len(str) + 1
                 ELSE CHOOSE i \in dots : \A j \in dots : i <= j
        later == {i \in dots : i > first}
        second == IF later = {} THEN Len(str) + 1
                  ELSE CHOOSE i \in later : \A j \in later : i <= j
    IN [intPart |-> SubSeq(str, 1, first - 1),
        fracPart |-> IF dots = {} THEN {} ELSE {SubSeq(str, first + 1, second - 1)}]

\* str.padEnd(6, '0').substring(0, 6)
PadAndCut(str) == SubSeq(str \o Zeros(IF Len(str) < 6 THEN 6 - Len(str) ELSE 0), 1, 6)

\* str.replace(/^0+/, '')
RECURSIVE StripLeadingZeros(_)
StripLeadingZeros(str) ==
    IF str # "" /\ Head(str) = "0" THEN StripLeadingZeros(Tail(str)) ELSE str

\* octToMicro(oct), str being oct.toString()
octToMicro(str) ==
    LET parts == SplitAtDots(str)
        fracPart == IF parts.fracPart = {} THEN "" ELSE The(parts.fracPart)
        stripped == StripLeadingZeros(parts.intPart \o PadAndCut(fracPart))
    IN IF stripped = "" THEN "0" ELSE stripped

\* The amounts a caller converts: below 1000 OCT, down to 1e-8 OCT
Amounts ==
    {a \in [digits : {0, 1, 5, 15, 105, 1234567}, exp : -8..2] :
        /\ a.digits = 0 => a.exp = 0
        /\ Len(ToString(a.digits)) + a.exp <= 3}

\* An amount to convert, passed as a decimal string or as a number
InitOctToMicro ==
    /\ InitProgram
    /\ \E a \in Amounts, kind \in {"string", "number"} :
          calc = [fn |-> "octToMicro", stage |-> "input", amount |-> a, kind |-> kind,
                  oct |-> "", result |-> ""]

\* octToMicro(oct)
applyOctToMicro ==
    /\ calc.fn = "octToMicro" /\ calc.stage = "input"
    /\ LET str == IF calc.kind = "string" THEN PlainDecimal(calc.amount)
                  ELSE NumberToString(calc.amount)
       IN calc' = [calc EXCEPT !.stage = "done", !.oct = str, !.result = octToMicro(str)]
    /\ UNCHANGED programVars

InitHelpers == InitTransaction \/ InitSerialize \/ InitVerify \/ InitOctToMicro

NextHelpers ==
    \/ applyEnsureNonce
    \/ applyTransactionApproval
    \/ applySignTransactionOnly
    \/ applySerializePayload
    \/ applyVerifyOSM1Signature
    \/ applyOctToMicro
    \/ Tick

SpecHelpers == InitHelpers /\ [][NextHelpers]_vars

\* C26: the nonce of the signed transaction is the nonce the caller supplied
\* (0 included); without one it is the on-chain nonce of the balance lookup
\* plus 1, and the time of the lookup when the lookup failed.
C26_NonceAsSpecified ==
    calc.fn = "transaction" /\ calc.stage = "signed" =>
        The(calc.tx).nonce =
            IF Has(calc.given, "nonce") THEN calc.given.nonce
            ELSE IF calc.lookup >= 0 THEN calc.lookup + 1
            ELSE calc.ensuredAt

\* The fields of a transaction that are signed
SignedFields == <<"from", "to_", "amount", "nonce", "ou", "timestamp">>

\* C27: the bytes signed for a transaction are the compact JSON of from, to_,
\* amount, nonce, ou, timestamp in that order and of nothing else; two
\* transactions that agree on these six fields have the same signed bytes and
\* the same signature, whatever their message or other fields.
C27_SignedBytesAreSixFields ==
    calc.fn = "transaction" /\ calc.stage = "signed" =>
        LET a == The(calc.tx)
            b == The(calc.otherTx)
        IN /\ a.signature.bytes =
                  "{\"from\":\"" \o a.from \o "\",\"to_\":\"" \o a.to_
                      \o "\",\"amount\":\"" \o a.amount \o "\",\"nonce\":"
                      \o ToString(a.nonce) \o ",\"ou\":\"" \o a.ou
                      \o "\",\"timestamp\":" \o ToString(a.timestamp) \o "}"
           /\ (\A i \in DOMAIN SignedFields : a[SignedFields[i]] = b[SignedFields[i]])
                  => a.signature = b.signature

\* Two transactions were signed that differ in their message only
C27_Witness ==
    /\ calc.fn = "transaction" /\ calc.stage = "signed"
    /\ Has(The(calc.tx), "message") /\ ~Has(The(calc.otherTx), "message")
    /\ \A i \in DOMAIN SignedFields :
          The(calc.tx)[SignedFields[i]] = The(calc.otherTx)[SignedFields[i]]
    /\ The(calc.tx).signature = The(calc.otherTx).signature

\* The entries of a payload object whose value is not undefined
Defined(payload) == {payload[i] : i \in {j \in DOMAIN payload : payload[j][2] # {}}}

\* C28: two payload objects with the same defined entries, in whatever
\* insertion order and with or without further keys of value undefined, have
\* the same canonical serialization and the same signature.
C28_SerializationIgnoresOrder ==
    calc.fn = "serialize" /\ calc.stage = "done"
            /\ Defined(calc.payload) = Defined(calc.other) =>
        /\ calc.serialized = calc.otherSerialized
        /\ calc.signature = calc.otherSignature

\* Two objects with the same three defined entries in different insertion
\* orders were serialized and signed
C28_Witness ==
    /\ calc.fn = "serialize" /\ calc.stage = "done"
    /\ Defined(calc.payload) = Defined(calc.other)
    /\ Cardinality(Defined(calc.payload)) = 3
    /\ calc.payload # calc.other
    /\ calc.serialized = calc.otherSerialized
    /\ calc.signature = calc.otherSignature

\* The result of an approved signMessage as the page hands it to the verifier
EnvelopeOf(result) ==
    [payload |-> {PayloadEntries(result.payload)},
     signature |-> {result.signature},
     publicKey |-> IF result.publicKey = "undefined" THEN {} ELSE {result.publicKey},
     address |-> result.address]

\* C29: the message signed for the envelope of an approved signMessage (its
\* payload has no expiresAt) is createSigningMessage(payload), and
\* verifyOSM1Signature reports the envelope valid with all five sub-checks
\* true.
C29_ApprovedEnvelopeIsValid ==
    \A n \in DOMAIN reqs :
        Req(n).method = "signMessage" /\ Has(Req(n).response, "result") =>
            LET envelope == EnvelopeOf(Req(n).response.result)
                report == verifyOSM1Signature(envelope,
                              [expectedDomain |-> {Req(n).origin}, checkExpiry |-> TRUE])
            IN /\ The(envelope.signature).bytes = createSigningMessage(The(envelope.payload))
               /\ report.valid
               /\ Has(report, "validations")
               /\ \A check \in DOMAIN report.validations : report.validations[check]

\* The five sub-checks of a verification
SubChecks == {"signatureValid", "versionValid", "domainMatch", "notExpired", "addressMatch"}

\* C30: every result of verifyOSM1Signature, also for a malformed envelope,
\* reports the five sub-checks; valid is true exactly when all five are; and
\* notExpired is false when expiry is checked and the time is past
\* payload.expiresAt.
C30_VerifierReportsAllChecks ==
    calc.fn = "verify" /\ calc.stage = "done" =>
        LET report == The(calc.report)
        IN /\ Has(report, "validations")
           /\ DOMAIN report.validations = SubChecks
           /\ report.valid <=> \A check \in SubChecks : report.validations[check]
           /\ \A P \in calc.response.payload :
                  calc.options.checkExpiry /\ Lookup(P, "expiresAt") # {}
                          /\ calc.at > The(Lookup(P, "expiresAt"))
                      => ~report.validations.notExpired

\* floor(amount * 10^6)
MicroUnits(amount) ==
    IF amount.exp + 6 >= 0 THEN amount.digits * Pow10(amount.exp + 6)
    ELSE amount.digits \div Pow10(-(amount.exp + 6))

\* C31: for every non-negative decimal amount, octToMicro yields the decimal
\* string of floor(amount * 10^6): the integer part followed by six
\* fractional digits, without leading zeros, and "0" at least.
C31_OctToMicroIsExact ==
    calc.fn = "octToMicro" /\ calc.stage = "done" =>
        calc.result = ToString(MicroUnits(calc.amount))

\* Nothing is left in the storage areas and in the broker
Wiped ==
    /\ storageLocal = EmptyMap /\ storageSession = EmptyMap
    /\ dappConnections = EmptyMap /\ dappApprovals = EmptyMap
    /\ activeSessionCache = {} /\ memorySessionKey = 0

\* C32: when RESET_EVERYTHING replies success, the storage areas are empty
\* and the broker has no connections, approvals, session cache or SessionKey;
\* and a request that was in flight cannot repopulate any of them when its
\* handler continues afterwards.
C32_ResetLeavesNothing ==
    [][ /\ (resetPc # "replied" /\ resetPc' = "replied" => Wiped')
        /\ (resetPc = "replied" /\ Wiped
               /\ (\E n \in DOMAIN reqs : Req(n).pc = "settled" /\ reqs'[n].pc = "done")
             => Wiped') ]_vars

\* C33: an approval window that found its approval sends exactly one
\* RESOLVE_APPROVAL for it, whatever the user clicks before the window
\* closes: never a second one.
C33_OneResolvePerWindow ==
    appOpen /\ dappApprovalId # 0 /\ request = "found" => clicks <= 1

\* C34: a signature or a broadcast is made for an origin only while the
\* origin holds a connected Connection at the moment its approval is resolved;
\* after a disconnect, an 'approved' decision on a pending approval signs and
\* broadcasts nothing.
C34_SignsOnlyWhileConnected ==
    [][ /\ \A s \in signatures' \ signatures : IsConnected(s.origin)
        /\ \A b \in broadcasts' \ broadcasts :
               IsConnected(approvalLog[b.approvalId].origin) ]_vars

\* C35: the broker signs an OSM-1 payload for origin O only when the
\* payload's domain is O, the origin the relay attested, and the payload's
\* address is the address of the wallet that signs.
C35_SignsOwnDomainAndAddress ==
    \A s \in signatures :
       s.type = "signMessage" =>
          LET payload == Req(approvalLog[s.approvalId].req).params.payload
          IN /\ payload.domain = s.origin
             /\ payload.address = s.address

\* The number a string of decimal digits denotes
RECURSIVE DecimalValue(_, _)
DecimalValue(str, acc) ==
    IF str = "" THEN acc
    ELSE DecimalValue(Tail(str),
             10 * acc + (CHOOSE d \in 0..9 : SubSeq(str, 1, 1) = ToString(d)))

\* C36: the amount and the destination the transaction approval shows are
\* those of the transaction that is signed on approval: the signed amount in
\* micro units divided by 10^6, and the signed to_.
C36_ShownIsSigned ==
    calc.fn = "transaction" /\ calc.stage = "signed" =>
        LET tx == The(calc.tx)
            shown == The(calc.shown)
        IN /\ shown.amountOct = ToFixed6(DecimalValue(tx.amount, 0))
           /\ shown.to = Shorten({tx.to_})

\* C37: whenever something is signed for a connected origin O, the address of
\* the wallet that signs (the from of the signed transaction, the address of
\* the envelope) is the address in O's Connection, also after the active
\* wallet was changed.
C37_SignsAsConnectedAddress ==
    [][ \A s \in signatures' \ signatures :
            IsConnected(s.origin) => s.address = dappConnections[s.origin].address ]_vars

\* C38: two signTransaction / sendTransaction requests for one wallet that
\* are pending at the same time and both omit the nonce are signed with
\* different nonces.
C38_PendingNoncesDiffer ==
    calc.fn = "transaction" /\ calc.stage = "signed"
        /\ ~Has(calc.given, "nonce") /\ ~Has(calc.otherGiven, "nonce")
      => The(calc.tx).nonce # The(calc.otherTx).nonce

\* How many times emit invoked the function cb
Invocations(calls, cb) == Cardinality({i \in DOMAIN calls : calls[i] = cb})

\* C39: an emit invokes every listener that was registered when it started
\* exactly once, also when a once() listener takes itself out of the array
\* during the emit; and a once() listener is gone after the emit that
\* invoked it, so that it is invoked for the first emit only.
C39_EmitReachesEveryListener ==
    \A e \in emitted :
       /\ \A i \in DOMAIN e.at : Invocations(e.calls, e.at[i].cb) = 1
       /\ \A i \in DOMAIN e.at :
             e.at[i].once /\ Invocations(e.calls, e.at[i].cb) > 0
                => \A j \in DOMAIN e.after : e.after[j] # e.at[i]

\* The error of the relay's catch block
RelayFailure == [error |-> [code |-> 4900, message |-> "Internal error"]]

\* C40: the relay posts exactly one OCTRA_RESPONSE for a request it
\* forwarded, when the broker call completes: the result or error the
\* broker's handler returned, or an error of code 4900 when the call failed;
\* a request that was answered is never answered again.
C40_OneResponsePerRequest ==
    [][ \A n \in DOMAIN reqs' :
           LET after == reqs'[n]
               answered == n \in DOMAIN reqs /\ Req(n).pc = "done"
           IN /\ answered => after = [Req(n) EXCEPT !.timer = after.timer,
                                                    !.call = after.call,
                                                    !.settlement = after.settlement,
                                                    !.settles = after.settles]
              /\ after.pc # "done" => after.response = EmptyMap
              /\ ~answered /\ after.pc = "done" =>
                    /\ Has(after.response, "result") \/ Has(after.response, "error")
                    /\ after.response = RelayFailure <=> (n \in DOMAIN reqs /\ Req(n).pc = "lost")
                    /\ n \in DOMAIN reqs /\ Req(n).pc = "settled" /\ Req(n).method # "connect" =>
                          after.response =
                             IF Has(Req(n).outcome, "reject")
                             THEN RejectionResponse(Req(n).method, Req(n).outcome.reject)
                             ELSE [result |-> Req(n).outcome.resolve.result] ]_vars

\* A request whose broker call failed was answered with the error of code
\* 4900, and another was answered with what the broker returned
C40_Witness ==
    \E n, m \in DOMAIN reqs :
       /\ Req(n).pc = "done" /\ Req(n).response = RelayFailure
       /\ Req(m).pc = "done" /\ Has(Req(m).response, "result")

====
